---- MODULE Spec2Model ----
(***************************************************************************)
(* A model of web2llm's GenericScraper (src/web2llm/scrapers/              *)
(* generic_scraper.py): the parsed document is a tree of nodes, scrape()   *)
(* is a sequence of steps over it.                                         *)
(*                                                                         *)
(* Strings are sequences of tokens.  A token is either one of the          *)
(* characters the code treats specially (the space, the line break, the    *)
(* double quote, "#", ":", "(" , ")", "-") or a word, which stands for a   *)
(* run of characters none of which is special.                             *)
(***************************************************************************)
EXTENDS Integers, Sequences, FiniteSets, TLC

\* The longest run of children the document generator puts in <body>.
MaxSibs == 3

----------------------------------------------------------------------------
(* Strings                                                                 *)

NL == "\n"
QUOTE == "\""
Whitespace == {" ", NL}

RECURSIVE LStrip(_)
LStrip(s) ==
    IF s = <<>> THEN <<>>
    ELSE IF Head(s) \in Whitespace THEN LStrip(Tail(s)) ELSE s

RECURSIVE RStrip(_)
RStrip(s) ==
    IF s = <<>> THEN <<>>
    ELSE IF s[Len(s)] \in Whitespace THEN RStrip(SubSeq(s, 1, Len(s) - 1)) ELSE s

\* str.strip()
Strip(s) == RStrip(LStrip(s))

RECURSIVE Flat(_)
\* "".join(parts)
Flat(parts) == IF parts = <<>> THEN <<>> ELSE Head(parts) \o Flat(Tail(parts))

Range(s) == {s[i] : i \in 1..Len(s)}

----------------------------------------------------------------------------
(* The DOM: bs4's Tag and NavigableString.  A node is a record; a text     *)
(* leaf has tag "#text".  nid is the node's path in the tree as parsed     *)
(* (child indexes from the root); a copy keeps the nid of the node it was  *)
(* copied from, the synthetic container made by new_tag has NewTagId.      *)

TextTag == "#text"
NewTagId == <<0>>

Blank ==
    [nid |-> <<>>, tag |-> "", id |-> "", cls |-> {}, role |-> "",
     aria |-> "", name |-> "", href |-> <<>>, alt |-> <<>>, content |-> <<>>,
     text |-> <<>>, kids |-> <<>>]

El(tag, kids) == [Blank EXCEPT !.tag = tag, !.kids = kids]
ElId(tag, id, kids) == [Blank EXCEPT !.tag = tag, !.id = id, !.kids = kids]
ElCls(tag, cls, kids) == [Blank EXCEPT !.tag = tag, !.cls = cls, !.kids = kids]
Txt(s) == [Blank EXCEPT !.tag = TextTag, !.text = s]
\* <a href=...>: href is <<>> when the attribute is absent, <<url>> otherwise.
Link(cls, url, kids) ==
    [Blank EXCEPT !.tag = "a", !.cls = cls, !.href = <<url>>, !.kids = kids]
Img(alt) == [Blank EXCEPT !.tag = "img", !.alt = alt]

IsTag(n) == n.tag /= TextTag

RECURSIVE Label(_, _)
\* The tree with every node's nid set to its path below p.
Label(n, p) ==
    [n EXCEPT !.nid = p,
              !.kids = [i \in 1..Len(n.kids) |-> Label(n.kids[i], Append(p, i))]]

RECURSIVE At(_, _)
\* The node at path p of tree t.
At(t, p) == IF p = <<>> THEN t ELSE At(t.kids[Head(p)], Tail(p))

RECURSIVE PathsFrom(_, _)
RECURSIVE KidPaths(_, _, _)
\* Tag.descendants, as paths, in document order, with p itself first.
PathsFrom(n, p) == <<p>> \o KidPaths(n, p, 1)
KidPaths(n, p, i) ==
    IF i > Len(n.kids) THEN <<>>
    ELSE PathsFrom(n.kids[i], Append(p, i)) \o KidPaths(n, p, i + 1)

\* Tag.descendants of the node at p in t: paths in t, document order.
Descendants(t, p) == Tail(PathsFrom(At(t, p), p))

RECURSIVE Nodes(_)
RECURSIVE KidNodes(_, _)
\* The nodes of a tree in document order, the root first.
Nodes(n) == <<n>> \o KidNodes(n, 1)
KidNodes(n, i) ==
    IF i > Len(n.kids) THEN <<>>
    ELSE Nodes(n.kids[i]) \o KidNodes(n, i + 1)

\* The nids of the source nodes a tree holds (copies of).
Nids(n) == {m.nid : m \in Range(Nodes(n))}

IsPrefix(p, q) == Len(p) <= Len(q) /\ SubSeq(q, 1, Len(p)) = p

RECURSIVE SetAt(_, _, _)
\* t with the node at path p replaced by n.
SetAt(t, p, n) ==
    IF p = <<>> THEN n
    ELSE [t EXCEPT !.kids[Head(p)] = SetAt(t.kids[Head(p)], Tail(p), n)]

\* Tag.find(names): the first descendant of the node at p whose tag is in
\* names, as <<path>>, or <<>>.
Find(t, p, names) ==
    LET hits == SelectSeq(Descendants(t, p), LAMBDA q : At(t, q).tag \in names)
    IN  IF hits = <<>> THEN <<>> ELSE <<Head(hits)>>

\* soup.find(id=fragment_id)
FindId(t, fid) ==
    LET hits == SelectSeq(Descendants(t, <<>>),
                          LAMBDA q : IsTag(At(t, q)) /\ At(t, q).id = fid)
    IN  IF hits = <<>> THEN <<>> ELSE <<Head(hits)>>

\* Tag.get_text(strip=True): every string below n stripped, the empty ones
\* dropped, joined with "".
GetText(n) ==
    LET strs == SelectSeq(Nodes(n), LAMBDA m : ~IsTag(m))
    IN  Flat([i \in 1..Len(strs) |-> Strip(strs[i].text)])

RECURSIVE StringOf(_)
\* Tag.string: <<s>> for the single string below n, or <<>> (None).
StringOf(n) ==
    IF ~IsTag(n) THEN <<n.text>>
    ELSE IF Len(n.kids) /= 1 THEN <<>>
    ELSE StringOf(n.kids[1])

\* Tag.find_next_siblings() with no arguments: the Tags among the siblings
\* that follow the node at p (bs4's _find_all keeps only Tag instances when
\* no filter is given), as paths.
FindNextSiblings(t, p) ==
    LET par  == SubSeq(p, 1, Len(p) - 1)
        i    == p[Len(p)]
        n    == Len(At(t, par).kids)
        sibs == [k \in 1..(n - i) |-> Append(par, i + k)]
    IN  IF p = <<>> THEN <<>> ELSE SelectSeq(sibs, LAMBDA q : IsTag(At(t, q)))

RECURSIVE Without(_, _)
\* t with the nodes at the paths of set ps (and all below them) detached:
\* Tag.decompose() on each.
Without(t, ps) ==
    LET keep == SelectSeq([i \in 1..Len(t.kids) |-> i],
                          LAMBDA i : <<i>> \notin ps)
    IN  [t EXCEPT !.kids =
            [k \in 1..Len(keep) |->
                Without(t.kids[keep[k]],
                        {Tail(q) : q \in {r \in ps : r /= <<>> /\ Head(r) = keep[k]}})]]

----------------------------------------------------------------------------
(* URLs: urllib.parse.  A URL is origin (scheme and host, "" in a relative *)
(* reference), a path (rooted or not, as segments) and a fragment.         *)

Url(origin, rooted, segs, frag) ==
    [origin |-> origin, rooted |-> rooted, segs |-> segs, frag |-> frag]

IsAbsolute(u) == u.origin /= ""

\* urljoin(base, ref)
UrlJoin(base, ref) ==
    IF ref.origin = "" /\ ~ref.rooted /\ ref.segs = <<>> /\ ref.frag = ""
    THEN base                                   \* "if not url: return base"
    ELSE IF ref.origin /= "" THEN ref
    ELSE IF ref.rooted THEN [ref EXCEPT !.origin = base.origin]
    ELSE IF ref.segs = <<>>
         THEN [base EXCEPT !.frag = ref.frag]
    ELSE Url(base.origin, base.rooted,
             SubSeq(base.segs, 1, Len(base.segs) - 1) \o ref.segs, ref.frag)

\* The URL as text.
UrlText(u) ==
    (IF u.origin = "" THEN <<>> ELSE <<u.origin>>)
    \o Flat([i \in 1..Len(u.segs) |->
                IF i = 1 /\ ~u.rooted THEN <<u.segs[i]>> ELSE <<"/", u.segs[i]>>])
    \o (IF u.frag = "" THEN <<>> ELSE <<"#", u.frag>>)

----------------------------------------------------------------------------
(* The Region: what scrape() holds in main_element.  It is None, a tree    *)
(* detached from the document (a copy), or the node at a path of the       *)
(* document itself.                                                        *)

NoRegion == [kind |-> "none", path |-> <<>>, tree |-> Blank]
Detached(tree) == [kind |-> "copy", path |-> <<>>, tree |-> tree]
InSoup(p) == [kind |-> "ref", path |-> p, tree |-> Blank]

RegionTree(t, r) == IF r.kind = "ref" THEN At(t, r.path) ELSE r.tree

Headings == {"h1", "h2", "h3", "h4", "h5", "h6"}

\* int(target_element.name[1])
HeadingLevel(tag) ==
    CASE tag = "h1" -> 1 [] tag = "h2" -> 2 [] tag = "h3" -> 3
      [] tag = "h4" -> 4 [] tag = "h5" -> 5 [] tag = "h6" -> 6

\* StopTags with range(1, stop_level): the anchor's own level left out.
StopTagsAbove(level) == {h \in Headings : HeadingLevel(h) < level}

\* stop_tags = [f"h{i}" for i in range(1, stop_level + 1)]
StopTags(level) == {h \in Headings : HeadingLevel(h) <= level}

\* copy.copy / copy.deepcopy of a Tag or a NavigableString: a new tree with
\* the same content, attached to nothing.
Copy(n) == n

\* The pruning of the copy: nested_stop_tag = safe_sibling.find(stop_tags),
\* then every tag of nested_stop_tag.find_next_siblings() and the stop tag
\* itself are decomposed.
Prune(s, stop) ==
    LET q == Find(s, <<>>, stop)[1]
    IN  Without(s, {q} \cup Range(FindNextSiblings(s, q)))

RECURSIVE Walk(_, _, _, _)
\* The loop over the siblings: acc is main_element's children so far.
Walk(t, sibs, stop, acc) ==
    IF sibs = <<>> THEN acc
    ELSE LET s == At(t, Head(sibs)) IN
         IF ~IsTag(s) THEN Walk(t, Tail(sibs), stop, Append(acc, Copy(s)))
         ELSE IF s.tag \in stop THEN acc
         ELSE IF Find(s, <<>>, stop) /= <<>> THEN Append(acc, Prune(Copy(s), stop))
         ELSE Walk(t, Tail(sibs), stop, Append(acc, Copy(s)))

\* soup.new_tag("div")
NewTag(tag) == [El(tag, <<>>) EXCEPT !.nid = NewTagId]

\* _get_fragment_element without the test on the tag name: every anchor is
\* put in a container with the siblings that follow it.
GetFragmentElementAlwaysWalks(t, fid) ==
    LET hit == FindId(t, fid) IN
    IF hit = <<>> THEN NoRegion
    ELSE Detached([NewTag("div") EXCEPT !.kids =
            Walk(t, FindNextSiblings(t, hit[1]),
                 IF At(t, hit[1]).tag \in Headings
                 THEN StopTags(HeadingLevel(At(t, hit[1]).tag)) ELSE Headings,
                 <<Copy(At(t, hit[1]))>>)])

\* _get_fragment_element that answers a fragment it cannot find with the
\* whole page.
GetFragmentElementWholePage(t, fid) ==
    LET hit == FindId(t, fid) IN
    IF hit = <<>> THEN Detached(Copy(t))
    ELSE LET p == hit[1]
             target == At(t, p)
         IN  IF target.tag \notin Headings THEN Detached(Copy(target))
             ELSE Detached([NewTag("div") EXCEPT !.kids =
                     Walk(t, FindNextSiblings(t, p),
                          StopTags(HeadingLevel(target.tag)), <<Copy(target)>>)])

\* _get_fragment_element without the copies: the anchor that is not a
\* heading is returned as the node of the tree it was found in.
GetFragmentElementInPlace(t, fid) ==
    LET hit == FindId(t, fid) IN
    IF hit = <<>> THEN NoRegion
    ELSE LET p == hit[1]
             target == At(t, p)
         IN  IF target.tag \notin Headings THEN InSoup(p)
             ELSE Detached([NewTag("div") EXCEPT !.kids =
                     Walk(t, FindNextSiblings(t, p),
                          StopTags(HeadingLevel(target.tag)), <<Copy(target)>>)])

\* GenericScraper._get_fragment_element(soup, fragment_id)
GetFragmentElement(t, fid) ==
    LET hit == FindId(t, fid) IN
    IF hit = <<>> THEN NoRegion
    ELSE LET p == hit[1]
             target == At(t, p)
         IN  IF target.tag \notin Headings THEN Detached(Copy(target))
             ELSE Detached([NewTag("div") EXCEPT !.kids =
                     Walk(t, FindNextSiblings(t, p),
                          StopTags(HeadingLevel(target.tag)), <<Copy(target)>>)])

----------------------------------------------------------------------------
(* CSS selectors: soupsieve's select_one.  A selector is a sequence of     *)
(* compound selectors joined by the descendant combinator; in a compound,  *)
(* "" leaves a part unconstrained.                                         *)

AnySel ==
    [tag |-> "", id |-> "", cls |-> "", role |-> "", aria |-> "",
     clsHas |-> "", idHas |-> ""]
Sel(tag, id, cls, role) ==
    [AnySel EXCEPT !.tag = tag, !.id = id, !.cls = cls, !.role = role]

\* The names of the documents that contain "sidebar": what [class*=...] and
\* [id*=...] look for.
SidebarNames == {"sidebar", "docs-sidebar", "bd-sidebar-primary"}
Contains(s, sub) == s = sub \/ (sub = "sidebar" /\ s \in SidebarNames)

MatchCompound(n, c) ==
    /\ IsTag(n)
    /\ c.tag = "" \/ n.tag = c.tag
    /\ c.id = "" \/ n.id = c.id
    /\ c.cls = "" \/ c.cls \in n.cls
    /\ c.role = "" \/ n.role = c.role
    /\ c.aria = "" \/ n.aria = c.aria
    /\ c.clsHas = "" \/ \E k \in n.cls : Contains(k, c.clsHas)
    /\ c.idHas = "" \/ Contains(n.id, c.idHas)

RECURSIVE MatchSelector(_, _, _)
MatchSelector(t, q, sel) ==
    /\ q /= <<>>
    /\ MatchCompound(At(t, q), sel[Len(sel)])
    /\ \/ Len(sel) = 1
       \/ \E k \in 1..(Len(q) - 1) :
            MatchSelector(t, SubSeq(q, 1, k), SubSeq(sel, 1, Len(sel) - 1))

\* soup.select_one(selector): <<path>> of the first match in document order.
SelectOne(t, sel) ==
    LET hits == SelectSeq(Descendants(t, <<>>), LAMBDA q : MatchSelector(t, q, sel))
    IN  IF hits = <<>> THEN <<>> ELSE <<Head(hits)>>

\* WEB_SCRAPER_CONFIG["main_content_selectors"]
MainContentSelectors ==
    << <<Sel("main", "", "", ""), Sel("", "", "md-content", "")>>,
       <<Sel("main", "", "VPContent", "")>>,
       <<Sel("main", "content", "", "")>>,
       <<Sel("main", "", "", ""), Sel("article", "", "", "")>>,
       <<Sel("div", "", "", "main")>>,
       <<Sel("div", "", "book", "")>>,
       <<Sel("div", "", "body", "")>>,
       <<Sel("article", "", "", "")>>,
       <<Sel("main", "", "", "")>>,
       <<Sel("div", "main", "", "")>>,
       <<Sel("div", "", "main-content", "")>>,
       <<Sel("div", "content", "", "")>>,
       <<Sel("div", "", "content", "")>> >>

\* The chain as one selector group: the first element of the document that
\* matches any of the selectors.
FirstMatchOfAny(t, sels) ==
    LET hits == SelectSeq(Descendants(t, <<>>),
                          LAMBDA q : \E i \in 1..Len(sels) : MatchSelector(t, q, sels[i]))
    IN  IF hits = <<>> THEN <<>> ELSE <<Head(hits)>>

RECURSIVE FirstMatch(_, _)
\* for selector in selectors: el = soup.select_one(selector); if el: break
FirstMatch(t, sels) ==
    IF sels = <<>> THEN <<>>
    ELSE LET hit == SelectOne(t, Head(sels))
         IN  IF hit /= <<>> THEN hit ELSE FirstMatch(t, Tail(sels))

\* The fallback of scrape(): main_element is the matched node of the soup.
FallbackSelect(t) ==
    LET hit == FirstMatch(t, MainContentSelectors)
    IN  IF hit = <<>> THEN NoRegion ELSE InSoup(hit[1])

\* WEB_SCRAPER_CONFIG["nav_selectors"]
NavSelectors ==
    << <<Sel("div", "", "", "navigation")>>,
       <<Sel("nav", "", "md-nav--primary", "")>>,
       <<Sel("aside", "", "VPSidebar", "")>>,
       <<Sel("nav", "", "sidebar-container", "")>>,
       <<Sel("aside", "", "theme-doc-sidebar-container-mobile", "")>>,
       <<Sel("div", "", "toc", "")>>,
       <<[AnySel EXCEPT !.tag = "nav", !.aria = "Main"]>>,
       <<Sel("nav", "main-nav", "", "")>>,
       <<Sel("", "", "bd-sidebar-primary", "")>>,
       <<Sel("nav", "bd-docs-nav", "", "")>>,
       <<Sel("div", "", "wy-menu-vertical", "")>>,
       <<[AnySel EXCEPT !.tag = "div", !.clsHas = "sidebar"]>>,
       <<[AnySel EXCEPT !.tag = "div", !.idHas = "sidebar"]>>,
       <<Sel("nav", "", "", "")>> >>

----------------------------------------------------------------------------
(* Link extraction                                                         *)

ListTags == {"ul", "ol", "dl"}
ItemTags == {"li", "dt"}

RECURSIVE Collapse(_)
Collapse(s) ==
    IF s = <<>> THEN <<>>
    ELSE IF Head(s) \in Whitespace
         THEN IF LStrip(s) = <<>> THEN <<>> ELSE <<" ">> \o Collapse(LStrip(s))
    ELSE <<Head(s)>> \o Collapse(Tail(s))

\* " ".join(text.split())
Normalize(s) == Collapse(LStrip(s))

LinkEntry(text, href, nested, children) ==
    [text |-> text, href |-> href, nested |-> nested, children |-> children]

RECURSIVE ExtractLinksRecursive(_, _)
RECURSIVE ItemLinks(_, _)
\* GenericScraper._extract_links_recursive(element, base_url); el is <<>>
\* for None and <<node>> otherwise.  An entry's nested says whether it has
\* the "children" key.
ExtractLinksRecursive(el, base) ==
    IF el = <<>> THEN <<>>
    ELSE LET lp == Find(el[1], <<>>, ListTags) IN
         IF lp = <<>> THEN <<>>
         ELSE LET items == SelectSeq(At(el[1], lp[1]).kids,
                                     LAMBDA k : k.tag \in ItemTags)
              IN  Flat([i \in 1..Len(items) |-> ItemLinks(items[i], base)])
\* The body of the loop: what one item adds to links.
ItemLinks(item, base) ==
    LET links == SelectSeq(item.kids, LAMBDA k : k.tag = "a" /\ k.href /= <<>>)
        lists == SelectSeq(item.kids, LAMBDA k : k.tag \in ListTags)
    IN  IF links /= <<>>
        THEN LET text == Normalize(GetText(links[1])) IN
             IF text = <<>> THEN <<>>
             ELSE << LinkEntry(text, UrlJoin(base, links[1].href[1]),
                               lists /= <<>>,
                               IF lists /= <<>>
                               THEN ExtractLinksRecursive(<<lists[1]>>, base)
                               ELSE <<>>) >>
        ELSE IF lists /= <<>> THEN ExtractLinksRecursive(<<lists[1]>>, base)
        ELSE <<>>

\* _extract_flat_links without the test of the text and without urljoin.
ExtractFlatLinksRaw(el, base) ==
    IF el = <<>> THEN <<>>
    ELSE LET anchors == SelectSeq(Tail(Nodes(el[1])),
                                  LAMBDA k : k.tag = "a" /\ k.href /= <<>>)
         IN  [i \in 1..Len(anchors) |->
                LinkEntry(GetText(anchors[i]), anchors[i].href[1], FALSE, <<>>)]

\* _extract_flat_links over the direct children of the container only.
ExtractFlatLinksDirect(el, base) ==
    IF el = <<>> THEN <<>>
    ELSE LET anchors == SelectSeq(el[1].kids,
                                  LAMBDA k : k.tag = "a" /\ k.href /= <<>>)
             named == SelectSeq(anchors, LAMBDA k : Normalize(GetText(k)) /= <<>>)
         IN  [i \in 1..Len(named) |->
                LinkEntry(Normalize(GetText(named[i])),
                          UrlJoin(base, named[i].href[1]), FALSE, <<>>)]

\* GenericScraper._extract_flat_links(element, base_url)
ExtractFlatLinks(el, base) ==
    IF el = <<>> THEN <<>>
    ELSE LET anchors == SelectSeq(Tail(Nodes(el[1])),
                             LAMBDA k : k.tag = "a" /\ k.href /= <<>>)
             named == SelectSeq(anchors, LAMBDA k : Normalize(GetText(k)) /= <<>>)
         IN  [i \in 1..Len(named) |->
                LinkEntry(Normalize(GetText(named[i])),
                          UrlJoin(base, named[i].href[1]), FALSE, <<>>)]

----------------------------------------------------------------------------
(* Title, description, front matter                                        *)

NoTitleFound == <<"No", " ", "Title", " ", "Found">>

\* soup.title
TitleTag(t) == Find(t, <<>>, {"title"})

\* soup.title.string is None: .strip() raises AttributeError.
TitleRaises(t) ==
    TitleTag(t) /= <<>> /\ StringOf(At(t, TitleTag(t)[1])) = <<>>

\* title = soup.title.string.strip() if soup.title else "No Title Found"
PageTitle(t) ==
    IF TitleTag(t) = <<>> THEN NoTitleFound
    ELSE Strip(StringOf(At(t, TitleTag(t)[1]))[1])

\* The description: the content of the first <meta name="description">,
\* stripped, or "" when there is no such tag or it has no content.
PageDescription(t) ==
    LET hits == SelectSeq(Descendants(t, <<>>),
                          LAMBDA q : At(t, q).tag = "meta"
                                     /\ At(t, q).name = "description")
    IN  IF hits /= <<>> /\ At(t, Head(hits)).content /= <<>>
        THEN Strip(At(t, Head(hits)).content)
        ELSE <<>>

SectionSuffix(what) == <<" ", "(", "Section", ":", " ">> \o what \o <<")">>

\* final_title as f"{title} (Section: {fragment_id})", whatever the Region
\* holds.
FinalTitleFromFragment(t, region, title, fid) ==
    IF fid /= "" /\ region.kind /= "none"
    THEN title \o SectionSuffix(<<fid>>)
    ELSE title

\* final_title
FinalTitle(t, region, title, fid) ==
    IF fid /= "" /\ region.kind /= "none"
    THEN LET root == RegionTree(t, region)
             h1 == Find(root, <<>>, {"h1", "h2", "h3"})
         IN  IF h1 /= <<>>
             THEN title \o SectionSuffix(GetText(At(root, h1[1])))
             ELSE title \o SectionSuffix(<<"#", fid>>)
    ELSE title

FrontMatterLine(key, value) == <<key, ":", " ", QUOTE>> \o value \o <<QUOTE, NL>>

\* front_matter with description before source_url.
FrontMatterReordered(final_title, source, desc, at) ==
    <<"---", NL>>
    \o FrontMatterLine("title", final_title)
    \o FrontMatterLine("description", desc)
    \o FrontMatterLine("source_url", source)
    \o FrontMatterLine("scraped_at", at)
    \o <<"---", NL, NL>>

\* front_matter
FrontMatter(final_title, source, desc, at) ==
    <<"---", NL>>
    \o FrontMatterLine("title", final_title)
    \o FrontMatterLine("source_url", source)
    \o FrontMatterLine("description", desc)
    \o FrontMatterLine("scraped_at", at)
    \o <<"---", NL, NL>>

\* context_data read after the header links have been taken out of the
\* whole document.
ContextDataAfterCleanUp(t, source, final_title, at) ==
    LET d == Without(t, {q \in Range(Descendants(t, <<>>)) :
                            At(t, q).tag = "a" /\ "headerlink" \in At(t, q).cls})
        nav == FirstMatch(d, NavSelectors)
        footer == Find(d, <<>>, {"footer"})
    IN  [source_url |-> UrlText(source),
         page_title |-> final_title,
         scraped_at |-> at,
         navigation_links |->
            ExtractLinksRecursive(IF nav = <<>> THEN <<>> ELSE <<At(d, nav[1])>>,
                                  source),
         footer_links |->
            ExtractFlatLinks(IF footer = <<>> THEN <<>> ELSE <<At(d, footer[1])>>,
                             source)]

\* context_data with "page_title": title, the title as read from <title>.
ContextDataPlainTitle(t, source, final_title, at) ==
    LET nav == FirstMatch(t, NavSelectors)
        footer == Find(t, <<>>, {"footer"})
    IN  [source_url |-> UrlText(source),
         page_title |-> PageTitle(t),
         scraped_at |-> at,
         navigation_links |->
            ExtractLinksRecursive(IF nav = <<>> THEN <<>> ELSE <<At(t, nav[1])>>,
                                  source),
         footer_links |->
            ExtractFlatLinks(IF footer = <<>> THEN <<>> ELSE <<At(t, footer[1])>>,
                             source)]

\* context_data
ContextData(t, source, final_title, at) ==
    LET nav == FirstMatch(t, NavSelectors)
        footer == Find(t, <<>>, {"footer"})
    IN  [source_url |-> UrlText(source),
         page_title |-> final_title,
         scraped_at |-> at,
         navigation_links |->
            ExtractLinksRecursive(IF nav = <<>> THEN <<>> ELSE <<At(t, nav[1])>>,
                                  source),
         footer_links |->
            ExtractFlatLinks(IF footer = <<>> THEN <<>> ELSE <<At(t, footer[1])>>,
                             source)]

----------------------------------------------------------------------------
(* Noise filter, href rewriting, rendering: all on the Region's root r.    *)

\* main_element.select("a.headerlink")
HeaderLinks(r) ==
    {q \in Range(Descendants(r, <<>>)) :
        At(r, q).tag = "a" /\ "headerlink" \in At(r, q).cls}

\* The first loop: every header link decomposed.
DropHeaderLinks(r) == Without(r, HeaderLinks(r))

\* main_element.select('img[alt*="Badge"]')
BadgeImages(r) ==
    SelectSeq(Descendants(r, <<>>),
              LAMBDA q : At(r, q).tag = "img" /\ "Badge" \in Range(At(r, q).alt))

Parent(q) == SubSeq(q, 1, Len(q) - 1)

\* The loop decomposing the image whatever its parent is.
BadgeTargetImage(r, q) == q

\* What the loop decomposes for the badge image at q: the parent when it is
\* a link, else the image.
BadgeTarget(r, q) == IF At(r, Parent(q)).tag = "a" THEN Parent(q) ELSE q

RECURSIVE BadgeLoop(_, _, _)
\* The second loop over the images selected before it started; gone is what
\* it has decomposed so far.  An image inside a subtree already decomposed
\* has lost its parent: img.parent.name raises AttributeError.
BadgeLoop(r, imgs, gone) ==
    IF imgs = <<>> THEN [raised |-> FALSE, gone |-> gone]
    ELSE IF \E d \in gone : IsPrefix(d, Head(imgs))
         THEN [raised |-> TRUE, gone |-> gone]
    ELSE BadgeLoop(r, Tail(imgs), gone \cup {BadgeTarget(r, Head(imgs))})

BadgeResult(r) == BadgeLoop(r, BadgeImages(r), {})

\* The Region's root after both loops, when the second neither raises nor
\* decomposes the root itself.
NoiseFilter(r) ==
    LET r1 == DropHeaderLinks(r)
    IN  Without(r1, BadgeResult(r1).gone)

NoiseFilterRaises(r) == BadgeResult(DropHeaderLinks(r)).raised
NoiseFilterKillsRoot(r) == <<>> \in BadgeResult(DropHeaderLinks(r)).gone

RECURSIVE RewriteNode(_, _)
RewriteNode(n, base) ==
    [n EXCEPT !.href = IF n.tag = "a" /\ n.href /= <<>>
                       THEN <<UrlJoin(base, n.href[1])>> ELSE @,
              !.kids = [i \in 1..Len(n.kids) |-> RewriteNode(n.kids[i], base)]]

\* for a_tag in main_element.find_all("a", href=True): the links below r.
RewriteHrefs(r, base) ==
    [r EXCEPT !.kids = [i \in 1..Len(r.kids) |-> RewriteNode(r.kids[i], base)]]

RECURSIVE Render(_)
\* md(str(main_element), heading_style="ATX", bullets="*", ...): the text
\* leaves in document order, a heading as an ATX line, a link with its
\* target, a paragraph closed by a blank line.
Render(n) ==
    LET inner == Flat([i \in 1..Len(n.kids) |-> Render(n.kids[i])]) IN
    IF ~IsTag(n) THEN n.text
    ELSE IF n.tag \in Headings
         THEN [i \in 1..HeadingLevel(n.tag) |-> "#"] \o <<" ">> \o inner \o <<NL, NL>>
    ELSE IF n.tag = "a" /\ n.href /= <<>> /\ inner /= <<>>
         THEN <<"[">> \o inner \o <<"]", "(">> \o UrlText(n.href[1]) \o <<")">>
    ELSE IF n.tag = "img"
         THEN <<"!", "[">> \o n.alt \o <<"]", "(", ")">>
    ELSE IF n.tag = "p" THEN inner \o <<NL, NL>>
    ELSE inner

----------------------------------------------------------------------------
(* The documents the model scrapes                                         *)

Rel(file) == Url("", FALSE, <<file>>, "")
Ext == Url("https://ext.org", TRUE, <<"x">>, "")
Empty == Url("", FALSE, <<>>, "")
HeaderLink(frag) == Link({"headerlink"}, Url("", FALSE, <<>>, frag), <<Txt(<<"P">>)>>)
Badge == Img(<<"Build", " ", "Badge">>)

H1 == El("h1", <<Txt(<<"Big">>)>>)
H2s == ElId("h2", "start", <<Txt(<<" ", "Sec">>), HeaderLink("start")>>)
H2 == El("h2", <<Txt(<<"Next">>)>>)
H3 == El("h3", <<Txt(<<"Sub">>)>>)
H4s == ElId("h4", "deep", <<Txt(<<"Deep">>)>>)
Para == El("p", <<Txt(<<"c1">>), Link({}, Rel("other"), <<Txt(<<"lnk">>)>>)>>)
Loose == Txt(<<"loose">>)
\* A wrapper whose stop heading is a child, followed by a string and a tag.
Wrap1 ==
    El("div", <<El("p", <<Txt(<<"n1">>)>>), El("h2", <<Txt(<<"Stop">>)>>),
                Txt(<<"tail">>), El("p", <<Txt(<<"n2">>)>>)>>)
\* A wrapper whose stop heading is two levels deep.
Wrap2 ==
    El("div", <<El("section", <<El("p", <<Txt(<<"n3">>)>>),
                               El("h2", <<Txt(<<"Stop2">>)>>)>>),
                El("p", <<Txt(<<"after">>)>>)>>)

ScopeShapes == {H1, H2s, H2, H3, H4s, Para, Loose, Wrap1, Wrap2}

Main ==
    El("main", <<El("h1", <<Txt(<<"Main">>), HeaderLink("main")>>),
                 ElId("h2", "in", <<Txt(<<"Last">>)>>),
                 El("p", <<Txt(<<"m">>), Link({}, Empty, <<Txt(<<"self">>)>>)>>),
                 El("p", <<Txt(<<"fin">>)>>)>>)
Article ==
    El("article", <<El("h4", <<Txt(<<"Art">>)>>),
                    El("p", <<Link({}, Rel("a2"), <<Txt(<<"more">>)>>)>>)>>)
MainArticle ==
    El("main", <<El("p", <<Txt(<<"pre">>)>>),
                 El("article", <<El("p", <<Txt(<<"inner">>)>>)>>)>>)
\* Two badge images in one link.
DivContent ==
    ElCls("div", {"content"},
          <<El("p", <<Txt(<<"dc">>)>>), Link({}, Ext, <<Badge, Badge>>)>>)
Box ==
    ElId("div", "box",
         <<El("h3", <<Txt(<<" ", "DivT", NL>>), HeaderLink("box")>>),
           El("p", <<Txt(<<"dcon">>), Link({}, Ext, <<Badge>>), Badge>>)>>)
BadgeLink == [Link({}, Ext, <<Badge>>) EXCEPT !.id = "badge"]

\* A header link that is itself the target of a fragment.
PermaLink == [HeaderLink("perma") EXCEPT !.id = "perma"]

LayoutShapes ==
    {Main, Article, MainArticle, DivContent, Box, BadgeLink, PermaLink, Para}

Nav ==
    El("nav",
       <<Txt(<<"navtxt">>),
         El("ul",
            <<El("li", <<Link({}, Rel("home"), <<Txt(<<" ", "Home", NL, "Page">>)>>)>>),
              El("li", <<Link({}, Rel("guide"), <<Txt(<<"Guide">>)>>),
                         El("ul", <<El("li", <<Link({}, Rel("g1"), <<Txt(<<"G1">>)>>)>>)>>)>>),
              El("li", <<El("ul", <<El("li", <<Link({}, Ext, <<Txt(<<"Up">>)>>)>>)>>)>>),
              El("li", <<Link({}, Rel("blank"), <<Txt(<<" ">>)>>)>>)>>)>>)
Footer ==
    El("footer",
       <<Txt(<<"foottxt">>),
         Link({}, Rel("legal"), <<Txt(<<"Legal">>)>>),
         El("p", <<Link({}, Ext, <<Txt(<<"Ext">>)>>)>>),
         El("a", <<Txt(<<"nohref">>)>>)>>)

\* A navigation whose nested lists hold lists of their own: a list inside an
\* item of the nested list, a definition list, a link with nothing to read.
NavDeep ==
    El("nav",
       <<Txt(<<"navtxt">>),
         El("ol",
            <<El("li", <<Link({}, Rel("api"), <<Txt(<<"API">>), El("b", <<Txt(<<" ", "Ref">>)>>)>>),
                         El("ul", <<El("li", <<Link({}, Rel("skip"), <<Txt(<<"Skip">>)>>),
                                               El("dl", <<El("dt", <<Link({}, Empty, <<Txt(<<"Deep", " ", NL, "One">>)>>)>>),
                                                          El("dt", <<Link({}, Rel("void"), <<Txt(<<NL>>)>>)>>)>>)>>)>>)>>),
              El("li", <<El("ul", <<El("li", <<El("ol", <<El("li", <<Link({}, Ext, <<Txt(<<"Sub">>)>>)>>)>>)>>)>>)>>),
              El("li", <<El("span", <<Link({}, Rel("wrapped"), <<Txt(<<"Wrapped">>)>>)>>)>>)>>)>>)
\* A navigation with links and no list.
NavPlain ==
    El("nav", <<Txt(<<"navtxt">>), Link({}, Rel("only"), <<Txt(<<"Only">>)>>)>>)
FooterDeep ==
    El("footer",
       <<El("div", <<El("ul", <<El("li", <<Link({}, Empty, <<Txt(<<" ", "Top", " ", " ", "Of", NL>>)>>)>>),
                                El("li", <<Link({}, Rel("img"), <<Img(<<"logo">>)>>)>>)>>)>>),
         Link({}, Url("", TRUE, <<"about">>, "team"), <<Txt(<<"About">>)>>)>>)
\* A main element that holds the navigation and the footer: the lists of
\* links lie inside what the selector chain takes, and inside or next to
\* what the fragments "menu" and "sec" take.
MainNav ==
    El("main",
       <<ElId("nav", "menu",
              <<El("ul", <<El("li", <<Link({"headerlink"}, Rel("top"), <<Txt(<<"Top">>)>>)>>),
                           El("li", <<Link({}, Rel("next"), <<Txt(<<"Next">>)>>)>>)>>)>>),
         ElId("h2", "sec", <<Txt(<<"Sec">>)>>),
         El("footer", <<Link({"headerlink"}, Rel("imprint"), <<Txt(<<"Imprint">>)>>),
                        Link({}, Rel("terms"), <<Txt(<<"Terms">>)>>)>>)>>)
\* The navigation and the footer a page is framed with.
Frames == { <<<<Nav>>, <<Footer>>>>, <<<<NavDeep>>, <<FooterDeep>>>>,
            <<<<NavPlain>>, <<>>>> }

Meta(content) ==
    [Blank EXCEPT !.tag = "meta", !.name = "description", !.content = content]
TitleEl(kids) == El("title", kids)

DefaultHead ==
    El("head", <<TitleEl(<<Txt(<<"Test", " ", "Page">>)>>), Meta(<<"About">>)>>)

\* What a document can have in <title>: nothing, padding, a line break, a
\* double quote, the text of a front-matter line.
TitleTexts ==
    { <<NL, "T", " ">>, <<"A", NL, "B">>, <<"Say", QUOTE, "hi", QUOTE>>,
      <<"x", QUOTE, NL, "source_url", ":", " ", QUOTE, "evil">> }
Titles == {<<>>, <<TitleEl(<<>>)>>} \cup {<<TitleEl(<<Txt(s)>>)>> : s \in TitleTexts}
Metas == { <<>>, <<Meta(<<>>)>>, <<Meta(<<" ", "D", QUOTE, " ">>)>>,
           <<Meta(<<"D", NL, "---">>)>> }
Heads == {El("head", ti \o me) : ti \in Titles, me \in Metas}

SeqsUpTo(S, n) == UNION {[1..k -> S] : k \in 1..n}

Document(head, kids) ==
    Label(El("[document]", <<El("html", <<head, El("body", kids)>>)>>), <<>>)

\* Family A: the region scoper's cases.  Family B: page layouts, with and
\* without navigation and footer.  Family C: what <head> can hold.
ScopeDocs == {Document(DefaultHead, kids) : kids \in SeqsUpTo(ScopeShapes, MaxSibs)}
LayoutBodies ==
    SeqsUpTo(LayoutShapes, MaxSibs - 1)
    \cup {f[1] \o kids \o f[2] : f \in Frames, kids \in SeqsUpTo(LayoutShapes, MaxSibs - 1)}
LayoutDocs == {Document(DefaultHead, kids) : kids \in LayoutBodies}
HeadDocs == {Document(h, kids) : h \in Heads, kids \in {<<Main>>, <<Para>>}}
NestedDocs == {Document(DefaultHead, kids) : kids \in {<<MainNav>>, <<Para, MainNav>>}}

ScopeFragments == {"", "start", "deep", "nope"}
LayoutFragments == {"", "in", "box", "badge", "perma", "nope"}
HeadFragments == {"", "in"}
NestedFragments == {"", "menu", "sec", "nope"}

Source(frag) == Url("http://example.com", TRUE, <<"docs", "page">>, frag)

Inputs ==
    {[doc |-> d, source |-> Source(f)] : d \in ScopeDocs, f \in ScopeFragments}
    \cup {[doc |-> d, source |-> Source(f)] : d \in LayoutDocs, f \in LayoutFragments}
    \cup {[doc |-> d, source |-> Source(f)] : d \in HeadDocs, f \in HeadFragments}
    \cup {[doc |-> d, source |-> Source(f)] : d \in NestedDocs, f \in NestedFragments}

\* datetime.now(timezone.utc).isoformat()
Timestamps == {<<"2025-01-01T00:00:00+00:00">>, <<"2025-06-30T12:00:00+00:00">>}

----------------------------------------------------------------------------
(* _get_code_language: the language of a code block.  A class name is a    *)
(* sequence of pieces, <<"highlight-", "python">> for "highlight-python";  *)
(* the element is given by the strings below it, its class list and its    *)
(* ancestors, the nearest first.                                           *)

MaxParents == 2

CodeEl(strings, class, parents) ==
    [strings |-> strings, class |-> class, parents |-> parents]
Ancestor(name, class) == [name |-> name, class |-> class]

\* str.startswith(prefix)
StartsWith(s, prefix) == s /= <<>> /\ Head(s) = prefix
\* str.replace(piece, "")
Remove(s, piece) == SelectSeq(s, LAMBDA x : x /= piece)

\* el.get_text(strip=True)
CodeText(el) == Flat([i \in 1..Len(el.strings) |-> Strip(el.strings[i])])

Placeholders == {<<"default">>, <<"text">>}

\* The languages the loop over el.parents meets, in the order it meets
\* them: for each div, for each class that starts with "highlight-".
HighlightLangs(parents) ==
    Flat([i \in 1..Len(parents) |->
            IF parents[i].name /= "div" THEN <<>>
            ELSE LET hl == SelectSeq(parents[i].class,
                                     LAMBDA c : StartsWith(c, "highlight-"))
                 IN  [j \in 1..Len(hl) |-> Remove(hl[j], "highlight-")]])

\* _get_code_language with the element's own classes read before its
\* ancestors'.
GetCodeLanguageOwnClassFirst(el) ==
    LET langs == SelectSeq(HighlightLangs(el.parents),
                           LAMBDA l : l \notin Placeholders)
        own == SelectSeq(el.class, LAMBDA c : StartsWith(c, "language-"))
    IN  IF StartsWith(CodeText(el), ">>>") THEN <<"python">>
        ELSE IF own /= <<>> THEN Remove(own[1], "language-")
        ELSE IF langs /= <<>> THEN langs[1]
        ELSE <<>>

\* GenericScraper._get_code_language(el); <<>> is "".
GetCodeLanguage(el) ==
    LET langs == SelectSeq(HighlightLangs(el.parents),
                           LAMBDA l : l \notin Placeholders)
        own == SelectSeq(el.class, LAMBDA c : StartsWith(c, "language-"))
    IN  IF StartsWith(CodeText(el), ">>>") THEN <<"python">>
        ELSE IF langs /= <<>> THEN langs[1]
        ELSE IF own /= <<>> THEN Remove(own[1], "language-")
        ELSE <<>>

\* The code blocks the model asks about.
CodeStrings ==
    { << <<">>>", " ", "x">> >>, << <<NL, " ">>, <<" ", ">>>", "x">> >>,
      << <<"x", " ", ">>>">> >>, <<>> }
CodeClasses ==
    { <<>>, << <<"hljs">>, <<"language-", "js">>, <<"language-", "rust">> >>,
      << <<"language-", "default">> >>, << <<"highlight-", "go">> >> }
Ancestors ==
    { Ancestor("div", << <<"highlight-", "python">>, <<"notranslate">> >>),
      Ancestor("div", << <<"highlight-", "default">> >>),
      Ancestor("div", << <<"highlight-", "text">>, <<"highlight-", "c">> >>),
      Ancestor("div", << <<"highlight-">> >>),
      Ancestor("div", <<>>),
      Ancestor("section", << <<"highlight-", "ruby">> >>),
      Ancestor("body", << <<"language-", "css">> >>) }
CodeEls ==
    {CodeEl(s, c, p) : s \in CodeStrings, c \in CodeClasses,
                       p \in {<<>>} \cup SeqsUpTo(Ancestors, MaxParents)}
NoCodeEl == CodeEl(<<>>, <<>>, <<>>)

----------------------------------------------------------------------------
(* The folder walk: GitHubScraper._process_repo and the callers that build *)
(* include_dirs and exclude_dirs.  A str is the sequence of its            *)
(* characters; a directory name is spelled the same way, <<"s","r","c">>   *)
(* for "src"; a file name ends with its extension as one piece,            *)
(* <<"m","a","i","n",".py">>.  A list of names is a sequence of names.     *)

IsInfix(x, s) == \E i \in 0..(Len(s) - Len(x)) : SubSeq(s, i + 1, i + Len(x)) = x

RECURSIVE Join(_, _)
\* sep.join(parts)
Join(parts, sep) ==
    IF parts = <<>> THEN <<>>
    ELSE IF Len(parts) = 1 THEN parts[1]
    ELSE parts[1] \o sep \o Join(Tail(parts), sep)

RECURSIVE Split(_, _, _)
\* s.split(sep), cur being the piece under way
Split(s, sep, cur) ==
    IF s = <<>> THEN <<cur>>
    ELSE IF Head(s) = sep THEN <<cur>> \o Split(Tail(s), sep, <<>>)
    ELSE Split(Tail(s), sep, Append(cur, Head(s)))

\* [d.strip() for d in arg.split(',') if d.strip()]
SplitDirs(arg) ==
    LET parts == Split(arg, ",", <<>>)
        stripped == [i \in 1..Len(parts) |-> Strip(parts[i])]
    IN  SelectSeq(stripped, LAMBDA d : d /= <<>>)

\* What self.include_dirs / self.exclude_dirs holds: a list of names or a
\* str; "x or []" turns the empty one into the empty list.
AsList(names) == [kind |-> "list", items |-> names]
AsStr(chars) == IF chars = <<>> THEN AsList(<<>>)
                ELSE [kind |-> "str", items |-> chars]
\* for d in x: the items of a list, the characters of a str
Iter(x) == IF x.kind = "list" THEN x.items
           ELSE [i \in 1..Len(x.items) |-> <<x.items[i]>>]
\* name in x: membership in a list, substring of a str
In(name, x) == IF x.kind = "list" THEN name \in Range(x.items)
               ELSE IsInfix(name, x.items)

File(name, text) == [dir |-> FALSE, name |-> name, text |-> text, entries |-> <<>>]
Dir(name, entries) == [dir |-> TRUE, name |-> name, text |-> FALSE, entries |-> entries]

IgnoredDirectories ==
    { <<".git">>, <<".github">>, <<".vscode">>, <<".idea">>,
      <<"_","_","p","y","c","a","c","h","e","_","_">>, <<"node_modules">>,
      <<"vendor">>, <<"target">>, <<"build">>, <<"dist">>, <<"venv">>,
      <<"env">>, <<".cache">>, <<"d","o","c","s">> }
IgnoredFilenames ==
    { <<"package-lock", ".json">>, <<"yarn", ".lock">>, <<"pnpm-lock", ".yaml">>,
      <<"p","o","e","t","r","y", ".lock">>, <<"pipfile", ".lock">>,
      <<"cargo", ".lock">>, <<"composer", ".lock">>, <<"gemfile", ".lock">>,
      <<"go", ".sum">>, <<"l","i","c","e","n","s","e">>, <<"license", ".md">>,
      <<"license", ".txt">>, <<"contributing", ".md">>, <<"contributors", ".md">>,
      <<"code_of_conduct", ".md">>, <<"security", ".md">>, <<"changelog", ".md">>,
      <<"history", ".md">>, <<"authors", ".md">>, <<".editorconfig">>,
      <<".ds_store">>, <<"thumbs", ".db">> }
IgnoredExtensions ==
    { ".log", ".tmp", ".swp", ".swo", ".env", ".pyc", ".pyo", ".o", ".so",
      ".dll", ".exe", ".class", ".jar", ".deb", ".rpm", ".png", ".jpg",
      ".jpeg", ".gif", ".webp", ".svg", ".mp4", ".mp3", ".mov", ".wav", ".ico" }
Extensions ==
    IgnoredExtensions \cup {".py", ".md", ".js", ".lock", ".json", ".txt",
                            ".yaml", ".sum", ".db", ".MD"}

\* str.lower(), a character or an extension at a time
Lower(x) ==
    CASE x = "L" -> "l" [] x = "I" -> "i" [] x = "C" -> "c" [] x = "E" -> "e"
      [] x = "N" -> "n" [] x = "S" -> "s" [] x = "R" -> "r" [] x = "A" -> "a"
      [] x = "D" -> "d" [] x = "M" -> "m" [] x = ".MD" -> ".md"
      [] OTHER -> x
LowerName(name) == [i \in 1..Len(name) |-> Lower(name[i])]
\* os.path.splitext(name)[1]
SplitExt(name) ==
    IF Len(name) > 1 /\ name[Len(name)] \in Extensions THEN name[Len(name)]
    ELSE ""

\* GitHubScraper._should_ignore(path, is_dir), name being basename(path)
ShouldIgnore(name, is_dir, exclude_dirs) ==
    IF is_dir /\ In(name, exclude_dirs) THEN TRUE
    ELSE IF is_dir THEN name \in IgnoredDirectories
    ELSE \/ LowerName(name) \in IgnoredFilenames
         \/ SplitExt(LowerName(name)) \in IgnoredExtensions

\* LANGUAGE_MAP
LanguageMap ==
    [e \in {".py", ".js", ".ts", ".java", ".c", ".cpp", ".h", ".cs", ".go",
            ".rs", ".rb", ".php", ".html", ".css", ".scss", ".json", ".xml",
            ".yaml", ".yml", ".md", ".sh", ".ps1", "dockerfile", "makefile",
            ".txt"} |->
        CASE e = ".py" -> "python" [] e = ".js" -> "javascript"
          [] e = ".ts" -> "typescript" [] e = ".java" -> "java"
          [] e = ".c" -> "c" [] e = ".cpp" -> "cpp" [] e = ".h" -> "c"
          [] e = ".cs" -> "csharp" [] e = ".go" -> "go" [] e = ".rs" -> "rust"
          [] e = ".rb" -> "ruby" [] e = ".php" -> "php" [] e = ".html" -> "html"
          [] e = ".css" -> "css" [] e = ".scss" -> "scss" [] e = ".json" -> "json"
          [] e = ".xml" -> "xml" [] e = ".yaml" -> "yaml" [] e = ".yml" -> "yaml"
          [] e = ".md" -> "markdown" [] e = ".sh" -> "shell"
          [] e = ".ps1" -> "powershell" [] e = "dockerfile" -> "dockerfile"
          [] e = "makefile" -> "makefile" [] e = ".txt" -> "text"]
\* lang: by the extension as written, or by the whole lower-cased name
FileLang(name) ==
    IF Len(name) = 1 /\ Lower(name[1]) \in DOMAIN LanguageMap
    THEN LanguageMap[Lower(name[1])]
    ELSE IF SplitExt(name) \in DOMAIN LanguageMap THEN LanguageMap[SplitExt(name)]
    ELSE "text"

\* One line of the file tree.
TreeLine(level, name, is_dir) ==
    [i \in 1..(4 * level) |-> " "] \o <<"|--", " ">> \o name
    \o (IF is_dir THEN <<"/">> ELSE <<>>)

\* A backquote, and the fence of three of them.
TICK == "'"
FENCE == "'''"

\* The header of a file's part of the contents: ### 'relative/path' in
\* backquotes.
PartHeader(rel) == <<"###", " ", TICK>> \o Join(rel, <<"/">>) \o <<TICK>>

\* One file's part of the contents.
Part(rel, f) ==
    <<NL, "---", NL, NL>> \o PartHeader(rel) \o <<NL, NL, FENCE, FileLang(f.name), NL>>
    \o <<"content of">> \o f.name \o <<NL, FENCE, NL>>

\* sorted(files): the files of a directory in the order of their names,
\* which is the order of Sorted for the names the model uses.
Sorted ==
    << <<".gitignore">>, <<"L","I","C","E","N","S","E">>, <<"R","E","A","D","M","E", ".md">>,
       <<"a","p","p", ".log">>, <<"a","p","p", ".py">>, <<"a","p","p", ".pyc">>,
       <<"b","u","t","t","o","n", ".js">>, <<"d","e","e","p", ".py">>,
       <<"i","m","a","g","e", ".png">>, <<"i","n","d","e","x", ".md">>,
       <<"m","a","i","n", ".py">>, <<"p","o","e","t","r","y", ".lock">>,
       <<"u","t","i","l","s", ".py">>, <<"x", ".py">> >>
SortedFiles(entries) ==
    LET files == {e \in Range(entries) : ~e.dir}
        names == SelectSeq(Sorted, LAMBDA n : \E f \in files : f.name = n)
    IN  [i \in 1..Len(names) |-> CHOOSE f \in files : f.name = names[i]]

RECURSIVE WalkFrom(_, _, _, _, _)
\* for root, dirs, files in os.walk(start_path, topdown=True): the lines and
\* the parts the loop adds for the directory node and all below it.  rel is
\* the path of node from the repository, depth the number of components of
\* relpath(root, start_path), inc whether include_dirs is non-empty.
WalkFrom(node, rel, depth, inc, exclude_dirs) ==
    LET level == depth + (IF inc THEN 1 ELSE 0)
        own == IF depth > 0 THEN <<TreeLine(level - 1, node.name, TRUE)>> ELSE <<>>
        files == SelectSeq(SortedFiles(node.entries),
                           LAMBDA f : ~ShouldIgnore(f.name, FALSE, exclude_dirs))
        dirs == SelectSeq(node.entries,
                          LAMBDA d : d.dir /\ ~ShouldIgnore(d.name, TRUE, exclude_dirs))
        texts == SelectSeq(files, LAMBDA f : f.text)
        below == [i \in 1..Len(dirs) |->
                    WalkFrom(dirs[i], Append(rel, dirs[i].name), depth + 1,
                             inc, exclude_dirs)]
    IN  [lines |-> own
                   \o [i \in 1..Len(files) |-> TreeLine(level, files[i].name, FALSE)]
                   \o Flat([i \in 1..Len(below) |-> below[i].lines]),
         parts |-> [i \in 1..Len(texts) |-> Part(Append(rel, texts[i].name), texts[i])]
                   \o Flat([i \in 1..Len(below) |-> below[i].parts])]

\* os.path.exists(os.path.join(repo_path, d)): "." is the repository
\* itself; any other d names an entry of the repository.
Exists(repo, d) == d = <<".">> \/ \E e \in Range(repo.entries) : e.name = d
StartNode(repo, d) ==
    IF d = <<".">> THEN repo ELSE CHOOSE e \in Range(repo.entries) : e.name = d

\* GitHubScraper._process_repo(repo_path): file tree and contents
ProcessRepo(repo, include_dirs, exclude_dirs) ==
    LET inc == include_dirs.items /= <<>>
        starts == IF inc
                  THEN SelectSeq(Iter(include_dirs), LAMBDA d : Exists(repo, d))
                  ELSE << <<".">> >>
        OfStart(d) ==
            LET node == StartNode(repo, d)
                walk == IF node.dir
                        THEN WalkFrom(node, IF d = <<".">> THEN <<>> ELSE <<d>>,
                                      0, inc, exclude_dirs)
                        ELSE [lines |-> <<>>, parts |-> <<>>]
            IN  [lines |-> (IF inc THEN <<TreeLine(0, d, TRUE)>> ELSE <<>>)
                           \o walk.lines,
                 parts |-> walk.parts]
        all == [i \in 1..Len(starts) |-> OfStart(starts[i])]
    IN  [file_tree |-> Join(Flat([i \in 1..Len(all) |-> all[i].lines]), <<NL>>),
         concatenated_content |-> Flat(Flat([i \in 1..Len(all) |-> all[i].parts]))]

\* The projects the model walks.
SrcDir ==
    Dir(<<"s","r","c">>,
        << File(<<"u","t","i","l","s", ".py">>, TRUE),
           Dir(<<"_","_","p","y","c","a","c","h","e","_","_">>,
               <<File(<<"a","p","p", ".pyc">>, FALSE)>>),
           File(<<"a","p","p", ".py">>, TRUE),
           Dir(<<"c","o","r","e">>, <<File(<<"d","e","e","p", ".py">>, TRUE)>>) >>)
DocsDir ==
    Dir(<<"d","o","c","s">>,
        << File(<<"i","n","d","e","x", ".md">>, TRUE),
           File(<<"i","m","a","g","e", ".png">>, FALSE) >>)
Project ==
    Dir(<<"test-project">>,
        << File(<<"R","E","A","D","M","E", ".md">>, TRUE),
           File(<<"m","a","i","n", ".py">>, TRUE),
           File(<<".gitignore">>, TRUE),
           File(<<"a","p","p", ".log">>, TRUE),
           File(<<"p","o","e","t","r","y", ".lock">>, TRUE),
           File(<<"L","I","C","E","N","S","E">>, TRUE),
           SrcDir, DocsDir,
           Dir(<<"c","o","m","p","o","n","e","n","t","s">>,
               <<File(<<"b","u","t","t","o","n", ".js">>, TRUE)>>) >>)
\* A project with a directory whose name is one character.
SmallProject ==
    Dir(<<"small">>,
        << Dir(<<"c">>, <<File(<<"x", ".py">>, TRUE)>>),
           Dir(<<"c","o","r","e">>, <<File(<<"x", ".py">>, TRUE)>>),
           SrcDir,
           File(<<"R","E","A","D","M","E", ".md">>, TRUE) >>)
Repos == {Project, SmallProject}

\* What --include-dirs and --exclude-dirs are given on the command line.
IncludeArgs ==
    { <<>>, <<"s","r","c">>, <<"s","r","c", ",", " ", "d","o","c","s">>,
      <<"c","o","m","p","o","n","e","n","t","s", ",", "s","r","c">>,
      <<"c">>, <<"m","i","s","s","i","n","g">>, <<".", "s","r","c">> }
ExcludeArgs == { <<>>, <<"c","o","r","e">>, <<"s","r","c">> }

----------------------------------------------------------------------------
(* scrape() as a state machine                                             *)

VARIABLES
    pc,            \* where the run is
    source,        \* self.source, a URL
    page,          \* the document the server holds, as lxml parses it
    requests,      \* the requests fetch_html has issued
    soup,          \* the parsed tree
    title, description,
    main_element,  \* the Region
    final_title, scraped_at, front_matter,
    context_data,
    content_md,
    markdown,      \* the first component of what scrape() returns
    saved,         \* save_outputs has written the files
    code_el,       \* the element _get_code_language is asked about
    language,      \* what it answered
    repo,          \* the folder _process_repo walks
    include_arg, exclude_arg,     \* --include-dirs, --exclude-dirs
    include_dirs, exclude_dirs,   \* self.include_dirs, self.exclude_dirs
    file_tree, concatenated_content,
    extractions    \* the calls of _get_fragment_element in progress

code_vars == <<code_el, language>>
walk_vars == <<repo, include_arg, exclude_arg, include_dirs, exclude_dirs,
               file_tree, concatenated_content>>
vars == <<pc, source, page, requests, soup, title, description, main_element,
          final_title, scraped_at, front_matter, context_data, content_md,
          markdown, saved, code_vars, walk_vars, extractions>>

NoContext ==
    [source_url |-> <<>>, page_title |-> <<>>, scraped_at |-> <<>>,
     navigation_links |-> <<>>, footer_links |-> <<>>]

\* A Region whose root the noise filter has decomposed.
Decomposed == [kind |-> "gone", path |-> <<>>, tree |-> Blank]

\* Nothing fetched, nothing asked, nothing walked.
NoScrape ==
    /\ requests = 0
    /\ soup = Blank
    /\ title = <<>> /\ description = <<>>
    /\ main_element = NoRegion
    /\ final_title = <<>> /\ scraped_at = <<>> /\ front_matter = <<>>
    /\ context_data = NoContext
    /\ content_md = <<>> /\ markdown = <<>>
    /\ saved = FALSE
NoCode == code_el = NoCodeEl /\ language = <<>>
\* No call of _get_fragment_element outside scrape().
NoPair == extractions = <<>>
NoWalk ==
    /\ include_dirs = AsList(<<>>) /\ exclude_dirs = AsList(<<>>)
    /\ file_tree = <<>> /\ concatenated_content = <<>>

Init ==
    /\ \E in \in Inputs : source = in.source /\ page = in.doc
    /\ pc = "init"
    /\ NoScrape
    /\ NoCode
    /\ repo = Dir(<<>>, <<>>) /\ include_arg = <<>> /\ exclude_arg = <<>>
    /\ NoWalk
    /\ NoPair

\* fetch_html returns the markup; BeautifulSoup(html, "lxml") parses it.
Fetch ==
    /\ pc = "init"
    /\ requests' = requests + 1
    /\ soup' = page
    /\ pc' = "fetched"
    /\ UNCHANGED <<source, page, title, description, main_element, final_title,
                   scraped_at, front_matter, context_data, content_md, markdown,
                   saved>>
    /\ UNCHANGED <<code_vars, walk_vars, extractions>>

\* fetch_html asking again after a failed request.
FetchFailsAndRetries ==
    /\ pc = "init"
    /\ requests < 2
    /\ requests' = requests + 1
    /\ pc' = "init"
    /\ UNCHANGED <<source, page, soup, title, description, main_element,
                   final_title, scraped_at, front_matter, context_data,
                   content_md, markdown, saved>>
    /\ UNCHANGED <<code_vars, walk_vars, extractions>>

\* fetch_html: the request fails, sys.exit(1).
FetchFails ==
    /\ pc = "init"
    /\ requests' = requests + 1
    /\ pc' = "exited"
    /\ UNCHANGED <<source, page, soup, title, description, main_element,
                   final_title, scraped_at, front_matter, context_data,
                   content_md, markdown, saved>>
    /\ UNCHANGED <<code_vars, walk_vars, extractions>>

\* title and description
ReadHead ==
    /\ pc = "fetched"
    /\ IF TitleRaises(soup)
       THEN pc' = "raised" /\ UNCHANGED <<title, description>>
       ELSE /\ title' = PageTitle(soup)
            /\ description' = PageDescription(soup)
            /\ pc' = "parsed"
    /\ UNCHANGED <<source, page, requests, soup, main_element, final_title,
                   scraped_at, front_matter, context_data, content_md, markdown,
                   saved>>
    /\ UNCHANGED <<code_vars, walk_vars, extractions>>

\* if fragment_id: main_element = self._get_fragment_element(soup, fragment_id)
ResolveFragment ==
    /\ pc = "parsed"
    /\ main_element' = IF source.frag /= ""
                       THEN GetFragmentElement(soup, source.frag)
                       ELSE NoRegion
    /\ pc' = "resolved"
    /\ UNCHANGED <<source, page, requests, soup, title, description, final_title,
                   scraped_at, front_matter, context_data, content_md, markdown,
                   saved>>
    /\ UNCHANGED <<code_vars, walk_vars, extractions>>

\* if not main_element: the selector chain
SelectFallback ==
    /\ pc = "resolved"
    /\ main_element' = IF main_element.kind = "none"
                       THEN FallbackSelect(soup)
                       ELSE main_element
    /\ pc' = "selected"
    /\ UNCHANGED <<source, page, requests, soup, title, description, final_title,
                   scraped_at, front_matter, context_data, content_md, markdown,
                   saved>>
    /\ UNCHANGED <<code_vars, walk_vars, extractions>>

\* final_title, scraped_at, front_matter
Assemble ==
    /\ pc = "selected"
    /\ \E at \in Timestamps :
        /\ scraped_at' = at
        /\ final_title' = FinalTitle(soup, main_element, title, source.frag)
        /\ front_matter' = FrontMatter(final_title', UrlText(source), description, at)
    /\ pc' = "assembled"
    /\ UNCHANGED <<source, page, requests, soup, title, description, main_element,
                   context_data, content_md, markdown, saved>>
    /\ UNCHANGED <<code_vars, walk_vars, extractions>>

\* nav_element, context_data
ExtractLinks ==
    /\ pc = "assembled"
    /\ context_data' = ContextData(soup, source, final_title, scraped_at)
    /\ pc' = "linked"
    /\ UNCHANGED <<source, page, requests, soup, title, description, main_element,
                   final_title, scraped_at, front_matter, content_md, markdown,
                   saved>>
    /\ UNCHANGED <<code_vars, walk_vars, extractions>>

\* Without the early return: rendering a Region that is None raises.
RenderNothing ==
    /\ pc = "linked"
    /\ main_element.kind = "none"
    /\ pc' = "raised"
    /\ UNCHANGED <<source, page, requests, soup, title, description, main_element,
                   final_title, scraped_at, front_matter, context_data, content_md,
                   markdown, saved>>
    /\ UNCHANGED <<code_vars, walk_vars, extractions>>

\* if not main_element: return front_matter, context_data
ReturnMetadataOnly ==
    /\ pc = "linked"
    /\ main_element.kind = "none"
    /\ markdown' = front_matter
    /\ pc' = "done"
    /\ UNCHANGED <<source, page, requests, soup, title, description, main_element,
                   final_title, scraped_at, front_matter, context_data, content_md,
                   saved>>
    /\ UNCHANGED <<code_vars, walk_vars, extractions>>

\* The Region's root replaced by r: in place when the Region is a node of
\* the soup, in the detached tree otherwise.
SetRegion(r) ==
    IF main_element.kind = "ref"
    THEN soup' = SetAt(soup, main_element.path, r) /\ UNCHANGED main_element
    ELSE main_element' = Detached(r) /\ UNCHANGED soup

\* "Clean up common clutter": the two loops.
CleanUp ==
    /\ pc = "linked"
    /\ main_element.kind /= "none"
    /\ LET r == RegionTree(soup, main_element) IN
        IF NoiseFilterKillsRoot(r)
        THEN /\ main_element' = Decomposed
             /\ UNCHANGED soup
             /\ pc' = IF NoiseFilterRaises(r) THEN "raised" ELSE "filtered"
        ELSE /\ SetRegion(NoiseFilter(r))
             /\ pc' = IF NoiseFilterRaises(r) THEN "raised" ELSE "filtered"
    /\ UNCHANGED <<source, page, requests, title, description, final_title,
                   scraped_at, front_matter, context_data, content_md, markdown,
                   saved>>
    /\ UNCHANGED <<code_vars, walk_vars, extractions>>

\* "Make relative links absolute"
MakeLinksAbsolute ==
    /\ pc = "filtered"
    /\ IF main_element.kind = "gone"
       THEN UNCHANGED <<soup, main_element>>
       ELSE SetRegion(RewriteHrefs(RegionTree(soup, main_element), source))
    /\ pc' = "rewritten"
    /\ UNCHANGED <<source, page, requests, title, description, final_title,
                   scraped_at, front_matter, context_data, content_md, markdown,
                   saved>>
    /\ UNCHANGED <<code_vars, walk_vars, extractions>>

\* content_md = md(str(main_element), ...); return front_matter + content_md
RenderBody ==
    /\ pc = "rewritten"
    /\ main_element.kind /= "gone"
    /\ content_md' = Render(RegionTree(soup, main_element))
    /\ markdown' = front_matter \o content_md'
    /\ pc' = "done"
    /\ UNCHANGED <<source, page, requests, soup, title, description, main_element,
                   final_title, scraped_at, front_matter, context_data, saved>>
    /\ UNCHANGED <<code_vars, walk_vars, extractions>>

\* str() of a decomposed Tag: bs4 either fails on the attributes the Tag has
\* lost or prints an element with nothing in it.
RenderDecomposed ==
    /\ pc = "rewritten"
    /\ main_element.kind = "gone"
    /\ \/ pc' = "raised" /\ UNCHANGED <<content_md, markdown>>
       \/ /\ content_md' = <<>>
          /\ markdown' = front_matter
          /\ pc' = "done"
    /\ UNCHANGED <<source, page, requests, soup, title, description, main_element,
                   final_title, scraped_at, front_matter, context_data, saved>>
    /\ UNCHANGED <<code_vars, walk_vars, extractions>>

\* main(): save_outputs(args.output_base, markdown_content, context_data)
SaveOutputs ==
    /\ pc = "done"
    /\ saved' = TRUE
    /\ pc' = "saved"
    /\ UNCHANGED <<source, page, requests, soup, title, description, main_element,
                   final_title, scraped_at, front_matter, context_data, content_md,
                   markdown>>
    /\ UNCHANGED <<code_vars, walk_vars, extractions>>

Next ==
    \/ Fetch
    \/ FetchFails
    \/ ReadHead
    \/ ResolveFragment
    \/ SelectFallback
    \/ Assemble
    \/ ExtractLinks
    \/ ReturnMetadataOnly
    \/ CleanUp
    \/ MakeLinksAbsolute
    \/ RenderBody
    \/ RenderDecomposed
    \/ SaveOutputs

Spec == Init /\ [][Next]_vars

----------------------------------------------------------------------------
(* _get_code_language applied to one code block                            *)

scrape_vars == <<source, page, requests, soup, title, description,
                 main_element, final_title, scraped_at, front_matter,
                 context_data, content_md, markdown, saved>>

InitCode ==
    /\ pc = "code"
    /\ code_el \in CodeEls
    /\ language = <<>>
    /\ source = Source("") /\ page = Blank
    /\ NoScrape
    /\ repo = Dir(<<>>, <<>>) /\ include_arg = <<>> /\ exclude_arg = <<>>
    /\ NoWalk
    /\ NoPair

\* md(...) asks the callback for the language of the block
AskLanguage ==
    /\ pc = "code"
    /\ language' = GetCodeLanguage(code_el)
    /\ pc' = "told"
    /\ UNCHANGED <<code_el, scrape_vars, walk_vars, extractions>>

NextCode == AskLanguage

SpecCode == InitCode /\ [][NextCode]_vars

----------------------------------------------------------------------------
(* The folder walk, from the command line to the file tree                 *)

InitWalk ==
    /\ pc = "args"
    /\ repo \in Repos
    /\ include_arg \in IncludeArgs
    /\ exclude_arg \in ExcludeArgs
    /\ NoWalk
    /\ source = Source("") /\ page = Blank
    /\ NoScrape
    /\ NoCode
    /\ NoPair

\* main(): the arguments split into lists, LocalFolderScraper built on them
MainLocalFolder ==
    /\ pc = "args"
    /\ include_dirs' = AsList(SplitDirs(include_arg))
    /\ exclude_dirs' = AsList(SplitDirs(exclude_arg))
    /\ pc' = "built"
    /\ UNCHANGED <<repo, include_arg, exclude_arg, file_tree,
                   concatenated_content, scrape_vars, code_vars, extractions>>

\* get_scraper(): LocalFolderScraper built on the two strings as given
GetScraper ==
    /\ pc = "args"
    /\ include_dirs' = AsStr(include_arg)
    /\ exclude_dirs' = AsStr(exclude_arg)
    /\ pc' = "built"
    /\ UNCHANGED <<repo, include_arg, exclude_arg, file_tree,
                   concatenated_content, scrape_vars, code_vars, extractions>>

\* LocalFolderScraper.scrape(): self._process_repo(folder_path)
WalkFolder ==
    /\ pc = "built"
    /\ LET out == ProcessRepo(repo, include_dirs, exclude_dirs) IN
        /\ file_tree' = out.file_tree
        /\ concatenated_content' = out.concatenated_content
    /\ pc' = "walked"
    /\ UNCHANGED <<repo, include_arg, exclude_arg, include_dirs, exclude_dirs,
                   scrape_vars, code_vars, extractions>>

NextWalk ==
    \/ MainLocalFolder
    \/ GetScraper
    \/ WalkFolder

SpecWalk == InitWalk /\ [][NextWalk]_vars

----------------------------------------------------------------------------
(* Two calls of _get_fragment_element on one soup, a step at a time: the   *)
(* lookup and the set-up of the container are one step, every turn of the  *)
(* loop over the siblings is one step, and the steps of the two calls come *)
(* in any order.                                                           *)

Callers == 1..2
PairFragments == ScopeFragments \ {""}

\* A call that has not started.
Called(fid) ==
    [fragment_id |-> fid, stage |-> "called", stop_tags |-> {},
     siblings |-> <<>>, children |-> <<>>, result |-> NoRegion]

\* return main_element
Returns(e) ==
    [e EXCEPT !.stage = "returned",
              !.result = Detached([NewTag("div") EXCEPT !.kids = e.children])]

InitPair ==
    /\ pc = "pair"
    /\ \E d \in ScopeDocs : page = d /\ soup = d
    /\ extractions \in [Callers -> {Called(f) : f \in PairFragments}]
    /\ source = Source("")
    /\ requests = 0
    /\ title = <<>> /\ description = <<>>
    /\ main_element = NoRegion
    /\ final_title = <<>> /\ scraped_at = <<>> /\ front_matter = <<>>
    /\ context_data = NoContext
    /\ content_md = <<>> /\ markdown = <<>>
    /\ saved = FALSE
    /\ NoCode
    /\ repo = Dir(<<>>, <<>>) /\ include_arg = <<>> /\ exclude_arg = <<>>
    /\ NoWalk

pair_frame == <<pc, source, page, requests, title, description, main_element,
                final_title, scraped_at, front_matter, context_data,
                content_md, markdown, saved, code_vars, walk_vars>>

\* The call up to the loop: the lookup, the early returns, the container
\* with the copy of the anchor, the list find_next_siblings() builds.
FindTarget(i) ==
    /\ pc = "pair"
    /\ extractions[i].stage = "called"
    /\ LET e == extractions[i]
           hit == FindId(soup, e.fragment_id)
       IN  extractions' = [extractions EXCEPT ![i] =
             IF hit = <<>> THEN [e EXCEPT !.stage = "returned"]
             ELSE IF At(soup, hit[1]).tag \notin Headings
             THEN [e EXCEPT !.stage = "returned",
                            !.result = Detached(Copy(At(soup, hit[1])))]
             ELSE [e EXCEPT !.stage = "walking",
                            !.stop_tags = StopTags(HeadingLevel(At(soup, hit[1]).tag)),
                            !.children = <<Copy(At(soup, hit[1]))>>,
                            !.siblings = FindNextSiblings(soup, hit[1])]]
    /\ UNCHANGED <<soup, pair_frame>>

\* A turn of the loop that appends the sibling itself, not a copy of it:
\* append moves the sibling out of the document.
WalkSiblingMoves(i) ==
    /\ pc = "pair"
    /\ extractions[i].stage = "walking"
    /\ extractions[i].siblings /= <<>>
    /\ LET e == extractions[i]
           s == At(soup, Head(e.siblings))
       IN  IF ~IsTag(s) \/ (s.tag \notin e.stop_tags /\ Find(s, <<>>, e.stop_tags) = <<>>)
           THEN /\ extractions' = [extractions EXCEPT ![i] =
                      [e EXCEPT !.children = Append(@, s), !.siblings = Tail(@)]]
                /\ soup' = Without(soup, {Head(e.siblings)})
           ELSE /\ extractions' = [extractions EXCEPT ![i] =
                      IF s.tag \in e.stop_tags THEN Returns(e)
                      ELSE Returns([e EXCEPT !.children =
                                       Append(@, Prune(Copy(s), e.stop_tags))])]
                /\ UNCHANGED soup
    /\ UNCHANGED pair_frame

\* One turn of the loop over the siblings.
WalkSibling(i) ==
    /\ pc = "pair"
    /\ extractions[i].stage = "walking"
    /\ extractions[i].siblings /= <<>>
    /\ LET e == extractions[i]
           s == At(soup, Head(e.siblings))
       IN  extractions' = [extractions EXCEPT ![i] =
             IF ~IsTag(s)
             THEN [e EXCEPT !.children = Append(@, Copy(s)), !.siblings = Tail(@)]
             ELSE IF s.tag \in e.stop_tags THEN Returns(e)
             ELSE IF Find(s, <<>>, e.stop_tags) /= <<>>
             THEN Returns([e EXCEPT !.children =
                              Append(@, Prune(Copy(s), e.stop_tags))])
             ELSE [e EXCEPT !.children = Append(@, Copy(s)), !.siblings = Tail(@)]]
    /\ UNCHANGED <<soup, pair_frame>>

\* The loop has run out of siblings: return main_element.
ReturnRegion(i) ==
    /\ pc = "pair"
    /\ extractions[i].stage = "walking"
    /\ extractions[i].siblings = <<>>
    /\ extractions' = [extractions EXCEPT ![i] = Returns(@)]
    /\ UNCHANGED <<soup, pair_frame>>

NextPair ==
    \E i \in Callers :
        \/ FindTarget(i)
        \/ WalkSibling(i)
        \/ ReturnRegion(i)

SpecPair == InitPair /\ [][NextPair]_vars

----------------------------------------------------------------------------
(* Properties of the region scoper.  They are stated on the document as    *)
(* parsed (page), where a node's nid is its path, in the state that        *)
(* _get_fragment_element has just returned to.                             *)

\* The anchor: <<path>> of the element the fragment names, or <<>>.
Anchor == IF source.frag = "" THEN <<>> ELSE FindId(page, source.frag)

AtHeadingAnchor ==
    pc = "resolved" /\ Anchor /= <<>> /\ At(page, Anchor[1]).tag \in Headings
AtPlainAnchor ==
    pc = "resolved" /\ Anchor /= <<>> /\ At(page, Anchor[1]).tag \notin Headings

\* The siblings that follow the node at p, strings included, as nodes.
After(p) ==
    LET par == At(page, Parent(p))
    IN  SubSeq(par.kids, p[Len(p)] + 1, Len(par.kids))

\* A heading of the anchor's level or above.
StopsAt(n, anchor) ==
    n.tag \in Headings /\ HeadingLevel(n.tag) <= HeadingLevel(anchor.tag)
HoldsStop(n, anchor) ==
    \E m \in Range(Tail(Nodes(n))) : StopsAt(m, anchor)

\* The index in sibs of the first sibling that satisfies Test, or
\* Len(sibs) + 1.
FirstIndex(sibs, Test(_)) ==
    LET hits == {k \in 1..Len(sibs) : Test(sibs[k])}
    IN  IF hits = {} THEN Len(sibs) + 1
        ELSE CHOOSE k \in hits : \A j \in hits : k <= j

\* The first following sibling that is a stop heading.
FirstStopHeading(p) ==
    FirstIndex(After(p), LAMBDA n : StopsAt(n, At(page, p)))
\* The first following sibling that is a stop heading or holds one.
FirstStopPoint(p) ==
    FirstIndex(After(p), LAMBDA n : StopsAt(n, At(page, p)) \/ HoldsStop(n, At(page, p)))

PlainElement(n) == IsTag(n) /\ n.tag \notin Headings

\* Nothing of the stop heading, nor of a sibling after it, is in the Region.
NothingPastStopHeading(p) ==
    \A k \in FirstStopHeading(p)..Len(After(p)) :
        Nids(After(p)[k]) \cap Nids(main_element.tree) = {}

\* Every non-heading element sibling before index last is, whole, a child
\* of the Region.
WholeCopiesBefore(p, last) ==
    \A k \in 1..(last - 1) :
        PlainElement(After(p)[k]) => After(p)[k] \in Range(main_element.tree.kids)

\* C1, as claimed: for a heading anchor of level L the Region holds no copy
\* of a following sibling heading of level <= L nor of a sibling after the
\* first such heading, and holds a complete copy of every non-heading
\* element sibling between the anchor and that first stop heading.
C1_AsClaimed ==
    AtHeadingAnchor =>
        /\ NothingPastStopHeading(Anchor[1])
        /\ WholeCopiesBefore(Anchor[1], FirstStopHeading(Anchor[1]))

\* C1, amended: the same, with the complete copies promised only for the
\* non-heading element siblings that come before the first following
\* sibling that is a stop heading or contains one.
C1_RegionStopsAtSiblingHeading ==
    AtHeadingAnchor =>
        /\ main_element.kind = "copy"
        /\ NothingPastStopHeading(Anchor[1])
        /\ WholeCopiesBefore(Anchor[1], FirstStopPoint(Anchor[1]))

\* A heading anchor followed by a paragraph and then a stop heading, with
\* the paragraph in the Region.
C1_Witness ==
    /\ AtHeadingAnchor
    /\ FirstStopHeading(Anchor[1]) <= Len(After(Anchor[1]))
    /\ \E k \in 1..(FirstStopPoint(Anchor[1]) - 1) :
          /\ PlainElement(After(Anchor[1])[k])
          /\ After(Anchor[1])[k] \in Range(main_element.tree.kids)

\* The truncated sibling of a heading anchor: the first following sibling
\* that holds a stop heading without being one.
Truncated(p) == After(p)[FirstStopPoint(p)]
AtTruncation ==
    /\ AtHeadingAnchor
    /\ FirstStopPoint(Anchor[1]) <= Len(After(Anchor[1]))
    /\ ~StopsAt(Truncated(Anchor[1]), At(page, Anchor[1]))

\* The nodes of s that come before its first stop heading in document
\* order.
BeforeFirstStop(s, anchor) ==
    LET ns == Nodes(s)
        stop == FirstIndex(ns, LAMBDA n : StopsAt(n, anchor))
    IN  {ns[k].nid : k \in 1..(stop - 1)}

\* C2: the copy of a sibling that holds a stop heading keeps every node that
\* precedes the first stop heading in document order and nothing else of
\* the sibling, however deep the heading lies.
C2_TruncationKeepsExactlyWhatPrecedes ==
    AtTruncation =>
        LET s == Truncated(Anchor[1])
            kept == main_element.tree.kids[Len(main_element.tree.kids)]
        IN  /\ kept.nid = s.nid
            /\ Nids(kept) = BeforeFirstStop(s, At(page, Anchor[1]))

\* C3: for an anchor that is not a heading the Region equals the subtree
\* rooted at the anchor (tags, attributes, children in order, text) and
\* holds nothing of the anchor's siblings.
C3_PlainAnchorIsWholeSubtree ==
    AtPlainAnchor =>
        /\ main_element.kind = "copy"
        /\ main_element.tree = At(page, Anchor[1])
        /\ \A k \in 1..Len(At(page, Parent(Anchor[1])).kids) :
              k /= Anchor[1][Len(Anchor[1])] =>
                 Nids(At(page, Parent(Anchor[1])).kids[k])
                    \cap Nids(main_element.tree) = {}

\* A non-heading anchor with children, between two siblings.
C3_Witness ==
    /\ AtPlainAnchor
    /\ main_element.tree.kids /= <<>>
    /\ Anchor[1][Len(Anchor[1])] > 1
    /\ After(Anchor[1]) /= <<>>

----------------------------------------------------------------------------
(* Properties of scrape()                                                  *)

Returned == pc \in {"done", "saved"}

\* C4: the removals of the noise filter and the rewriting of the hrefs
\* leave the parsed tree as it was, whether the Region came from an anchor
\* or from the selector chain.
C4_SourceTreeUnchanged ==
    pc \notin {"init", "exited"} => soup = page

\* The fragment names no element of the document.
FragmentMissing == source.frag /= "" /\ Anchor = <<>>

\* What the same document gives when scraped with no fragment: the Region
\* and the rendered body.
RegionWithoutFragment == FallbackSelect(page)
BodyWithoutFragment ==
    IF RegionWithoutFragment.kind = "none" THEN <<>>
    ELSE Render(RewriteHrefs(NoiseFilter(RegionTree(page, RegionWithoutFragment)),
                             [source EXCEPT !.frag = ""]))

\* A link below r whose href is the empty string.
HasEmptyHref(r) ==
    \E n \in Range(Tail(Nodes(r))) : n.tag = "a" /\ n.href = <<Empty>>

\* C5, as claimed: with a fragment that matches nothing, the body is the
\* body of the scrape of the same document with no fragment.
C5_AsClaimed ==
    (FragmentMissing /\ Returned) => content_md = BodyWithoutFragment

\* C5, amended: with a fragment that matches nothing, _get_fragment_element
\* reports not-found, the Region is the one the selector chain gives with no
\* fragment, no error comes of the miss, and the body is the body of the
\* scrape with no fragment unless the Region holds a link with an empty
\* href (its target is the source locator, fragment included).
C5_MissingFragmentFallsBack ==
    FragmentMissing =>
        /\ pc = "resolved" => main_element = NoRegion
        /\ pc \in {"selected", "assembled", "linked", "filtered", "rewritten",
                   "done", "saved"}
              => main_element = RegionWithoutFragment
        /\ (pc = "raised" /\ front_matter /= <<>>)
              => /\ main_element = RegionWithoutFragment
                 /\ main_element.kind = "ref"
                 /\ NoiseFilterRaises(RegionTree(page, main_element))
        /\ (Returned /\ main_element.kind = "none") => content_md = <<>>
        /\ (Returned /\ main_element.kind = "ref"
              /\ ~HasEmptyHref(RegionTree(page, main_element)))
              => content_md = BodyWithoutFragment

\* A scrape with a missing fragment that returned the body of <main>, with
\* another element of the page left out.
C5_Witness ==
    /\ FragmentMissing
    /\ Returned
    /\ main_element.kind = "ref"
    /\ ~HasEmptyHref(RegionTree(page, main_element))
    /\ content_md /= <<>>
    /\ FindId(page, "box") /= <<>>

\* The selectors of the chain that match something, and what each matches.
Matches(i) ==
    SelectSeq(Descendants(page, <<>>),
              LAMBDA q : MatchSelector(page, q, MainContentSelectors[i]))
Matching == {i \in 1..Len(MainContentSelectors) : Matches(i) /= <<>>}
Earliest == CHOOSE i \in Matching : \A j \in Matching : i <= j

\* The words of the strings of a tree.
Words(n) ==
    UNION {Range(m.text) : m \in {x \in Range(Nodes(n)) : ~IsTag(x)}} \ Whitespace

\* C6: with no anchor Region, the Region is the first element in document
\* order that matches the earliest selector of main_content_selectors that
\* matches anything, and the body holds no text of the page from outside
\* that element.
C6_FallbackTakesEarliestSelector ==
    /\ (pc = "selected" /\ Anchor = <<>>) =>
          IF Matching = {} THEN main_element = NoRegion
          ELSE main_element = InSoup(Head(Matches(Earliest)))
    /\ (Returned /\ main_element.kind = "ref") =>
          Range(content_md) \cap (Words(page) \ Words(At(page, main_element.path))) = {}

\* A page where an element matching a later selector comes before the
\* chosen one, and whose navigation text stays out of the body.
C6_Witness ==
    /\ Returned
    /\ Anchor = <<>>
    /\ main_element.kind = "ref"
    /\ \E i \in Matching : i > Earliest /\ Head(Matches(i))[3] < main_element.path[3]
    /\ "navtxt" \in Words(page)
    /\ content_md /= <<>>

\* C7: with no Region at all scrape does not fail; it returns the front
\* matter alone (the block, a blank line, an empty body) and the whole
\* metadata record, navigation and footer links included.
C7_NoRegionGivesMetadataOnly ==
    /\ (pc = "raised" /\ front_matter /= <<>>) => main_element.kind /= "none"
    /\ (Returned /\ main_element.kind = "none") =>
          /\ markdown = front_matter
          /\ Len(markdown) > 3
          /\ SubSeq(markdown, Len(markdown) - 2, Len(markdown)) = <<"---", NL, NL>>
          /\ content_md = <<>>
          /\ context_data.source_url = UrlText(source)
          /\ context_data.page_title = final_title
          /\ context_data.scraped_at = scraped_at
          /\ LET nav == FirstMatch(page, NavSelectors)
                 footer == Find(page, <<>>, {"footer"})
             IN  /\ context_data.navigation_links =
                      IF nav = <<>> THEN <<>>
                      ELSE ExtractLinksRecursive(<<At(page, nav[1])>>, source)
                 /\ context_data.footer_links =
                      IF footer = <<>> THEN <<>>
                      ELSE ExtractFlatLinks(<<At(page, footer[1])>>, source)

\* A scrape that found no Region and returned links of both kinds.
C7_Witness ==
    /\ Returned
    /\ main_element.kind = "none"
    /\ context_data.navigation_links /= <<>>
    /\ context_data.footer_links /= <<>>

\* C8: what scrape returns begins with "---", the four fields title,
\* source_url, description, scraped_at in this order, each as key: "value"
\* and a line break, "---", one blank line, and then the rendered body.
C8_FrontMatterForm ==
    Returned =>
        markdown =
            <<"---", NL, "title", ":", " ", QUOTE>> \o final_title
            \o <<QUOTE, NL, "source_url", ":", " ", QUOTE>> \o UrlText(source)
            \o <<QUOTE, NL, "description", ":", " ", QUOTE>> \o description
            \o <<QUOTE, NL, "scraped_at", ":", " ", QUOTE>> \o scraped_at
            \o <<QUOTE, NL, "---", NL, NL>> \o content_md

\* A returned document with a description and a body.
C8_Witness ==
    /\ Returned
    /\ content_md /= <<>>
    /\ description /= <<>>
    /\ final_title /= title

\* The lines of s: s.split("\n").
RECURSIVE SplitLines(_, _)
SplitLines(s, line) ==
    IF s = <<>> THEN <<line>>
    ELSE IF Head(s) = NL THEN <<line>> \o SplitLines(Tail(s), <<>>)
    ELSE SplitLines(Tail(s), Append(line, Head(s)))

IsFieldLine(l) ==
    Len(l) >= 5 /\ l[2] = ":" /\ l[3] = " " /\ l[4] = QUOTE /\ l[Len(l)] = QUOTE

\* A reader of the front matter: the first line is "---"; every line up to
\* the next "---" is key: "value", the value being what stands between the
\* first and the last double quote of the line.  <<>> when the block is not
\* of this form.
ParseFrontMatter(s) ==
    LET lines == SplitLines(s, <<>>)
        close == FirstIndex(Tail(lines), LAMBDA l : l = <<"---">>) + 1
        fields == SubSeq(lines, 2, close - 1)
    IN  IF lines[1] /= <<"---">> \/ close > Len(lines) THEN <<>>
        ELSE IF \E k \in 1..Len(fields) : ~IsFieldLine(fields[k]) THEN <<>>
        ELSE [k \in 1..Len(fields) |->
                <<fields[k][1], SubSeq(fields[k], 5, Len(fields[k]) - 1)>>]

\* C9: reading the emitted block gives back the four fields, in order, with
\* the values the assembler wrote.
C9_FrontMatterRoundTrip ==
    Returned =>
        ParseFrontMatter(markdown) =
            << <<"title", final_title>>, <<"source_url", UrlText(source)>>,
               <<"description", description>>, <<"scraped_at", scraped_at>> >>

\* The headings of levels 1 to 3 inside the Region, in document order.
SectionHeadings ==
    SelectSeq(Tail(Nodes(RegionTree(soup, main_element))),
              LAMBDA n : n.tag \in {"h1", "h2", "h3"})

\* C10: with a fragment and a Region the title is the page title followed
\* by " (Section: <text of the first h1-h3 of the Region>)", or by
\* " (Section: #<fragment>)" when the Region has no such heading; with no
\* fragment it is the page title.
C10_TitleAugmentation ==
    pc \in {"assembled", "linked"} =>
        /\ title = PageTitle(page)
        /\ (source.frag /= "" /\ main_element.kind /= "none") =>
              final_title =
                 title \o <<" ", "(", "Section", ":", " ">>
                 \o (IF SectionHeadings /= <<>>
                     THEN GetText(Head(SectionHeadings))
                     ELSE <<"#", source.frag>>)
                 \o <<")">>
        /\ source.frag = "" => final_title = title

\* A Region whose first heading has padded text and a header link.
C10_Witness ==
    /\ pc = "assembled"
    /\ source.frag /= ""
    /\ main_element.kind = "copy"
    /\ SectionHeadings /= <<>>
    /\ Len(Head(SectionHeadings).kids) > 1
    /\ final_title = title \o SectionSuffix(<<"Sec", "P">>)

----------------------------------------------------------------------------
(* Properties of the link extraction                                       *)

Linked == pc \in {"linked", "filtered", "rewritten", "done", "saved"}

\* Every entry of a list of entries, children included.
RECURSIVE AllEntries(_)
AllEntries(links) ==
    IF links = <<>> THEN {}
    ELSE {Head(links)} \cup AllEntries(Head(links).children)
         \cup AllEntries(Tail(links))

Emitted ==
    AllEntries(context_data.navigation_links)
    \cup AllEntries(context_data.footer_links)

\* The links of the page that carry an href.
PageAnchors == {n \in Range(Nodes(page)) : n.tag = "a" /\ n.href /= <<>>}

\* A text with no whitespace at its ends and none but single spaces inside.
IsNormalized(s) ==
    /\ s /= <<>>
    /\ s[1] \notin Whitespace /\ s[Len(s)] \notin Whitespace
    /\ \A i \in 1..Len(s) :
          s[i] \in Whitespace => (s[i] = " " /\ s[i + 1] \notin Whitespace)

\* C11: no entry of navigation_links or footer_links, at any depth, has an
\* empty text once whitespace is normalized; the text is normalized; the
\* href is absolute and is a link's href resolved against the source.
C11_EntriesNamedAndAbsolute ==
    Linked =>
        \A e \in Emitted :
            /\ IsNormalized(e.text)
            /\ IsAbsolute(e.href)
            /\ \E a \in PageAnchors :
                  /\ e.href = UrlJoin(source, a.href[1])
                  /\ e.text = Normalize(GetText(a))

\* Entries two levels deep, a link with nothing but whitespace left out, a
\* relative and an empty href resolved.
C11_Witness ==
    /\ pc = "linked"
    /\ \E e \in Range(context_data.navigation_links) :
          \E c \in Range(e.children) : c.href = source
    /\ \E a \in PageAnchors : Normalize(GetText(a)) = <<>> /\ ~IsAbsolute(a.href[1])
    /\ \E e \in Emitted : \E a \in PageAnchors :
          ~IsAbsolute(a.href[1]) /\ a.href[1] /= Empty
          /\ e.href = UrlJoin(source, a.href[1])

\* The navigation container and its first list, as paths of the page.
NavElement == FirstMatch(page, NavSelectors)
TopList ==
    IF NavElement = <<>> THEN <<>>
    ELSE LET l == Find(page, NavElement[1], ListTags)
         IN  IF l = <<>> THEN <<>> ELSE <<At(page, l[1])>>

Items(list) == SelectSeq(list.kids, LAMBDA k : k.tag \in ItemTags)
DirectLink(item) == SelectSeq(item.kids, LAMBDA k : k.tag = "a" /\ k.href /= <<>>)
DirectList(item) == SelectSeq(item.kids, LAMBDA k : k.tag \in ListTags)

\* The entries of the direct items of a list, nesting as the lists nest: an
\* item with a link gives an entry whose children are the entries of the
\* item's nested list; an item with a nested list and no link gives the
\* entries of that list.
RECURSIVE MirroredLinks(_, _)
MirroredLinks(list, base) ==
    LET OfItem(item) ==
            LET link == DirectLink(item)
                nested == DirectList(item)
            IN  IF link /= <<>>
                THEN IF Normalize(GetText(link[1])) = <<>> THEN <<>>
                     ELSE << LinkEntry(Normalize(GetText(link[1])),
                                       UrlJoin(base, link[1].href[1]),
                                       nested /= <<>>,
                                       IF nested = <<>> THEN <<>>
                                       ELSE MirroredLinks(nested[1], base)) >>
                ELSE IF nested = <<>> THEN <<>>
                     ELSE MirroredLinks(nested[1], base)
    IN  Flat([i \in 1..Len(Items(list)) |-> OfItem(Items(list)[i])])

\* C12: an item of the first list that has a direct link with a text and a
\* nested list gives an entry whose children are the entries of the direct
\* items of the nested list.
C12_ChildrenMirrorNestedList ==
    (pc = "linked" /\ TopList /= <<>>) =>
        \A item \in Range(Items(TopList[1])) :
            (/\ DirectLink(item) /= <<>>
             /\ Normalize(GetText(DirectLink(item)[1])) /= <<>>
             /\ DirectList(item) /= <<>>)
            => \E e \in Range(context_data.navigation_links) :
                  /\ e.text = Normalize(GetText(DirectLink(item)[1]))
                  /\ e.href = UrlJoin(source, DirectLink(item)[1].href[1])
                  /\ e.children = MirroredLinks(DirectList(item)[1], source)

Texts(links) == [i \in 1..Len(links) |-> links[i].text]

\* C13: an item of the first list with no direct link and a nested list
\* gives, at its place in the result, the entries of the items of the nested
\* list.
C13_LinklessItemsAreSpliced ==
    (pc = "linked" /\ TopList /= <<>>) =>
        Texts(context_data.navigation_links) =
            Flat([i \in 1..Len(Items(TopList[1])) |->
                    LET item == Items(TopList[1])[i] IN
                    IF DirectLink(item) /= <<>>
                    THEN IF Normalize(GetText(DirectLink(item)[1])) = <<>>
                         THEN <<>>
                         ELSE <<Normalize(GetText(DirectLink(item)[1]))>>
                    ELSE IF DirectList(item) = <<>> THEN <<>>
                    ELSE Texts(MirroredLinks(DirectList(item)[1], source))])

\* The first <footer> of the page.
FooterElement == Find(page, <<>>, {"footer"})

\* The links below the footer that have an href and a text, in document
\* order, as paths.
FooterAnchors ==
    SelectSeq(Descendants(page, FooterElement[1]),
              LAMBDA q : /\ At(page, q).tag = "a"
                         /\ At(page, q).href /= <<>>
                         /\ Normalize(GetText(At(page, q))) /= <<>>)

\* C14: footer_links has one entry for each link with an href and a text
\* anywhere below the footer, in document order, none with children; with no
\* footer it is empty.
C14_FooterLinksAreFlat ==
    Linked =>
        IF FooterElement = <<>> THEN context_data.footer_links = <<>>
        ELSE /\ Len(context_data.footer_links) = Len(FooterAnchors)
             /\ \A i \in 1..Len(FooterAnchors) :
                   LET a == At(page, FooterAnchors[i])
                       e == context_data.footer_links[i]
                   IN  /\ e.text = Normalize(GetText(a))
                       /\ e.href = UrlJoin(source, a.href[1])
                       /\ ~e.nested /\ e.children = <<>>

\* A footer with links at several depths, one of them with no text.
C14_Witness ==
    /\ pc = "linked"
    /\ FooterElement /= <<>>
    /\ Len(FooterAnchors) = 2
    /\ \E q \in Range(FooterAnchors) : Len(q) > Len(FooterElement[1]) + 2
    /\ \E q \in Range(Descendants(page, FooterElement[1])) :
          At(page, q).tag = "a" /\ At(page, q).href /= <<>>
          /\ Normalize(GetText(At(page, q))) = <<>>

----------------------------------------------------------------------------
(* Properties of _get_code_language                                        *)

\* The ancestors whose class list has a "highlight-<lang>" with <lang> not
\* a placeholder, among those the test Counts admits.
Marked(Counts(_)) ==
    {i \in 1..Len(code_el.parents) :
        /\ Counts(code_el.parents[i])
        /\ \E c \in Range(code_el.parents[i].class) :
              StartsWith(c, "highlight-") /\ Remove(c, "highlight-") \notin Placeholders}

\* The language the four rules give, rule 2 reading the ancestors that
\* Counts admits: the nearest marked ancestor, its first such class.
ByRules(Counts(_)) ==
    IF StartsWith(CodeText(code_el), ">>>") THEN <<"python">>
    ELSE IF Marked(Counts) /= {}
    THEN LET i == CHOOSE i \in Marked(Counts) : \A k \in Marked(Counts) : i <= k
             class == code_el.parents[i].class
             j == FirstIndex(class, LAMBDA c : /\ StartsWith(c, "highlight-")
                                               /\ Remove(c, "highlight-") \notin Placeholders)
         IN  Remove(class[j], "highlight-")
    ELSE LET j == FirstIndex(code_el.class, LAMBDA c : StartsWith(c, "language-"))
         IN  IF j <= Len(code_el.class) THEN Remove(code_el.class[j], "language-")
             ELSE <<>>

\* C15, as claimed: rule 2 reads every ancestor element.
C15_AsClaimed ==
    pc = "told" => language = ByRules(LAMBDA a : TRUE)

\* C15, amended: the rules apply in order and the first hit wins; rule 2
\* reads only the ancestors that are div elements, the nearest first.  A
\* "highlight-default" or "highlight-text" class never gives the language.
C15_RulesInOrder ==
    pc = "told" =>
        /\ language = ByRules(LAMBDA a : a.name = "div")
        /\ language \in Placeholders =>
              \E c \in Range(code_el.class) :
                  StartsWith(c, "language-") /\ Remove(c, "language-") = language

\* A block with its own "language-" class below a div with a placeholder
\* and, further up, a div with a language: the ancestor's language wins.
C15_Witness ==
    /\ pc = "told"
    /\ ~StartsWith(CodeText(code_el), ">>>")
    /\ \E c \in Range(code_el.class) : StartsWith(c, "language-")
    /\ Len(code_el.parents) = 2
    /\ code_el.parents[1].class = << <<"highlight-", "default">> >>
    /\ language = <<"python">>

----------------------------------------------------------------------------
(* Properties of the folder walk                                           *)

\* The directories the user listed in --include-dirs / --exclude-dirs.
Listed == SplitDirs(include_arg)
Excluded == SplitDirs(exclude_arg)

RECURSIVE FilesBelow(_, _)
\* Every file below a directory, with its path from the repository.
FilesBelow(node, rel) ==
    UNION {IF e.dir THEN FilesBelow(e, Append(rel, e.name))
           ELSE {[rel |-> Append(rel, e.name), file |-> e]} : e \in Range(node.entries)}

\* Below a listed top-level directory of the root.
UnderListed(f) == Len(f.rel) > 1 /\ f.rel[1] \in Range(Listed)

\* Neither the file nor a directory between it and the listed directory is
\* ignored: by the configuration, or by --exclude-dirs.
NotIgnored(f) ==
    /\ ~ShouldIgnore(f.file.name, FALSE, AsList(Excluded))
    /\ \A k \in 2..(Len(f.rel) - 1) : ~ShouldIgnore(f.rel[k], TRUE, AsList(Excluded))

InContents(f) == IsInfix(PartHeader(f.rel), concatenated_content)

\* The names on the file lines of the file tree.
TreeFileNames ==
    LET lines == Split(file_tree, NL, <<>>)
        files == SelectSeq(lines, LAMBDA l : l /= <<>> /\ l[Len(l)] /= "/")
    IN  {SelectSeq(l, LAMBDA x : x \notin {" ", "|--"}) : l \in Range(files)}

\* C20: with --include-dirs given, the file tree and the contents hold only
\* files below a listed top-level directory, and every text file below one
\* that is not ignored is in both.
C20_OnlyIncludedDirs ==
    (pc = "walked" /\ Listed /= <<>>) =>
        /\ \A f \in FilesBelow(repo, <<>>) :
              /\ InContents(f) => UnderListed(f)
              /\ (UnderListed(f) /\ NotIgnored(f) /\ f.file.text)
                    => (InContents(f) /\ f.file.name \in TreeFileNames)
        /\ \A n \in TreeFileNames :
              \E f \in FilesBelow(repo, <<>>) : UnderListed(f) /\ f.file.name = n

----------------------------------------------------------------------------
(* Properties of the noise filter                                          *)

\* The Region as scrape() chose it, before the filter touched it.
RegionChosen ==
    LET r == IF source.frag /= "" THEN GetFragmentElement(page, source.frag)
             ELSE NoRegion
    IN  IF r.kind = "none" THEN FallbackSelect(page) ELSE r
RegionBefore == RegionTree(page, RegionChosen)

\* The filter ran to its end and the Region still has its root.
Filtered == pc = "filtered" /\ main_element.kind \in {"copy", "ref"}

IsHeaderLink(n) == n.tag = "a" /\ "headerlink" \in n.cls
IsBadge(n) == n.tag = "img" /\ "Badge" \in Range(n.alt)
Shallow(n) == [n EXCEPT !.kids = <<>>]

\* The nodes below the root of r that the filter is to remove, by nid: the
\* header links, and for each badge image left after them its parent when
\* that is a link, else the image.
NoiseBelow(r) ==
    LET paths == Range(Descendants(r, <<>>))
        links == {q \in paths : IsHeaderLink(At(r, q))}
        badges == {q \in paths : /\ IsBadge(At(r, q))
                                 /\ ~\E l \in links : IsPrefix(l, q)}
    IN  {At(r, q).nid : q \in links}
        \cup {At(r, IF At(r, Parent(q)).tag = "a" THEN Parent(q) ELSE q).nid :
                q \in badges}

\* C16, as claimed: after the filter the Region holds no header link and no
\* badge image.
C16_AsClaimed ==
    Filtered =>
        \A n \in Range(Nodes(RegionTree(soup, main_element))) :
            ~IsHeaderLink(n) /\ ~IsBadge(n)

\* C16, amended: after the filter no node below the Region's root is a
\* header link or a badge image; what went is each header link, each badge
\* image's parent link, each badge image with another parent, and what was
\* below them; every other node is where it was, as it was.
C16_NoiseRemovedRestInPlace ==
    Filtered =>
        LET after == RegionTree(soup, main_element)
            noise == NoiseBelow(RegionBefore)
            Kept(n) == ~\E t \in noise : IsPrefix(t, n.nid)
            was == [i \in 1..Len(Nodes(RegionBefore)) |-> Shallow(Nodes(RegionBefore)[i])]
            is == [i \in 1..Len(Nodes(after)) |-> Shallow(Nodes(after)[i])]
        IN  /\ \A n \in Range(Tail(Nodes(after))) : ~IsHeaderLink(n) /\ ~IsBadge(n)
            /\ is = SelectSeq(was, Kept)

\* A Region that lost a header link, a badge with its link and a badge
\* alone, and kept the rest.
C16_Witness ==
    /\ Filtered
    /\ \E n \in Range(Tail(Nodes(RegionBefore))) : IsHeaderLink(n)
    /\ \E q \in Range(Descendants(RegionBefore, <<>>)) :
          IsBadge(At(RegionBefore, q)) /\ At(RegionBefore, Parent(q)).tag = "a"
    /\ \E q \in Range(Descendants(RegionBefore, <<>>)) :
          IsBadge(At(RegionBefore, q)) /\ At(RegionBefore, Parent(q)).tag /= "a"
    /\ Len(Nodes(RegionTree(soup, main_element))) > 3

----------------------------------------------------------------------------
(* Failures                                                                *)

\* C17: once the markup is fetched scrape() raises on no document: not on
\* a missing or empty <title>, a description with no content, several
\* badges in one link, a Region whose root is a link around a badge.
C17_NeverRaises == pc /= "raised"

\* C18: a failed fetch ends the run: one request was made and no other is,
\* nothing was parsed, no (markdown, metadata) pair exists, save_outputs is
\* not reached and nothing more happens.
C18_FetchFailureIsFatal ==
    /\ requests \in {0, 1}
    /\ requests = 0 <=> pc = "init"
    /\ pc = "exited" =>
          /\ soup = Blank
          /\ markdown = <<>> /\ context_data = NoContext
          /\ ~saved
          /\ ~ENABLED Next
    /\ saved => pc = "saved"

\* A run whose only request failed.
C18_Witness == pc = "exited" /\ requests = 1 /\ ~saved

----------------------------------------------------------------------------
(* Properties of the href rewriting                                        *)

Rewritten == pc \in {"rewritten", "done", "saved"} /\ main_element.kind \in {"copy", "ref"}

\* C19: before rendering, every link of the Region that has an href has an
\* absolute one.
C19_AllHrefsAbsolute ==
    Rewritten =>
        \A n \in Range(Nodes(RegionTree(soup, main_element))) :
            (n.tag = "a" /\ n.href /= <<>>) => IsAbsolute(n.href[1])

\* The file of the tree and of the contents that the walk gave.
InTree(f) == f.file.name \in TreeFileNames
\* The file names on the tree's lines are names of files that Allowed
\* admits.
TreeOnly(Allowed(_)) ==
    \A n \in TreeFileNames :
        \E f \in FilesBelow(repo, <<>>) : Allowed(f) /\ f.file.name = n

\* Ignored by the configuration alone, with Names the ignored file names:
\* the file by its name or its extension, or a directory above it by name.
IgnoredByDefault(f, Names) ==
    \/ LowerName(f.file.name) \in Names
    \/ SplitExt(LowerName(f.file.name)) \in IgnoredExtensions
    \/ \E k \in 1..(Len(f.rel) - 1) : f.rel[k] \in IgnoredDirectories

\* Below a top-level directory that --exclude-dirs lists.
UnderExcluded(f) == Len(f.rel) > 1 /\ f.rel[1] \in Range(Excluded)

\* C21: with --exclude-dirs alone, the files below a listed top-level
\* directory are in neither the tree nor the contents, and every other file
\* that is not ignored is still there, a file in a deeper directory of the
\* same name included.
C21_ExcludeTopLevelOnly ==
    (pc = "walked" /\ Listed = <<>> /\ Excluded /= <<>>) =>
        /\ \A f \in FilesBelow(repo, <<>>) :
              /\ UnderExcluded(f) => ~InContents(f)
              /\ (~UnderExcluded(f) /\ ~IgnoredByDefault(f, IgnoredFilenames))
                    => (InTree(f) /\ (f.file.text => InContents(f)))
        /\ TreeOnly(LAMBDA f : ~UnderExcluded(f))

\* CODE_IGNORE_CONFIG["filenames"]: the names the default ignore list of
\* the claim holds, .gitignore among them.
CodeIgnoreFilenames == IgnoredFilenames \cup {<<".gitignore">>}

\* C22: with no filter, every text file that is not ignored has its
\* section, and a file ignored by name, by extension or by a directory
\* above it has neither a line in the tree nor a section.
C22_DefaultIgnoreList ==
    (pc = "walked" /\ Listed = <<>> /\ Excluded = <<>>) =>
        /\ \A f \in FilesBelow(repo, <<>>) :
              IF IgnoredByDefault(f, CodeIgnoreFilenames) THEN ~InContents(f)
              ELSE f.file.text => InContents(f)
        /\ TreeOnly(LAMBDA f : ~IgnoredByDefault(f, CodeIgnoreFilenames))

\* C30: with --include-dirs and --exclude-dirs both given, the tree and the
\* contents are those --include-dirs alone gives.
C30_IncludeTakesPrecedence ==
    (pc = "walked" /\ Listed /= <<>> /\ Excluded /= <<>>) =>
        LET alone == ProcessRepo(repo, include_dirs, AsList(<<>>))
        IN  /\ file_tree = alone.file_tree
            /\ concatenated_content = alone.concatenated_content

----------------------------------------------------------------------------
(* The Region of a heading anchor, child by child                          *)

\* The children of the Region.
RegionKids == main_element.tree.kids

\* The index of the last following sibling that has a child in the Region:
\* the sibling at the stopping point when it holds a stop heading without
\* being one, the sibling before the stopping point otherwise.
LastCopied(p) ==
    LET stop == FirstStopPoint(p)
    IN  IF stop <= Len(After(p)) /\ ~StopsAt(After(p)[stop], At(page, p))
        THEN stop ELSE stop - 1

\* C23: for a heading anchor the Region is a new container whose children
\* are the anchor and then, one for one and in document order, the
\* following siblings up to the stopping point: whole before the stopping
\* point (deeper headings included), the sibling that holds a stop heading
\* last, and nothing else.
C23_RegionIsAnchorThenSiblings ==
    AtHeadingAnchor =>
        LET p == Anchor[1] IN
        /\ main_element.kind = "copy"
        /\ main_element.tree.nid = NewTagId
        /\ Len(RegionKids) = 1 + LastCopied(p)
        /\ RegionKids[1] = At(page, p)
        /\ \A k \in 1..LastCopied(p) : RegionKids[k + 1].nid = After(p)[k].nid
        /\ \A k \in 1..(FirstStopPoint(p) - 1) : RegionKids[k + 1] = After(p)[k]

\* C24: every string that follows a heading anchor as a sibling, before the
\* stopping point, is a child of the Region, between the copies of the
\* siblings around it.
C24_TextSiblingsAreCopied ==
    AtHeadingAnchor =>
        \A k \in 1..(FirstStopPoint(Anchor[1]) - 1) :
            ~IsTag(After(Anchor[1])[k]) =>
                \E j \in 1..Len(RegionKids) :
                    /\ RegionKids[j] = After(Anchor[1])[k]
                    /\ \A i \in 1..(j - 1) :
                          RegionKids[i].nid = Anchor[1]
                          \/ \E h \in 1..(k - 1) : RegionKids[i].nid = After(Anchor[1])[h].nid

----------------------------------------------------------------------------
(* What _get_fragment_element leaves behind                                *)

\* scrape() has got past the call of _get_fragment_element.
PastFragment ==
    \/ pc \in {"resolved", "selected", "assembled", "linked", "filtered",
               "rewritten", "done", "saved"}
    \/ pc = "raised" /\ main_element.kind /= "none"

\* C25: _get_fragment_element leaves the parsed tree as it was, whatever
\* the anchor (heading, not a heading, not found, a sibling truncated), and
\* the Region it returns is no node of that tree: it is detached when it
\* returns, and what scrape() later removes from the Region or rewrites in
\* it never shows in the parsed tree.
C25_FragmentElementCopies ==
    /\ pc = "resolved" =>
          /\ soup = page
          /\ main_element.kind = (IF Anchor = <<>> THEN "none" ELSE "copy")
    /\ (PastFragment /\ Anchor /= <<>>) =>
          /\ soup = page
          /\ main_element.kind \in {"copy", "gone"}

\* A heading anchor whose Region ends in a truncated copy, while the
\* sibling it was copied from is whole in the parsed tree.
C25_Witness ==
    /\ AtTruncation
    /\ RegionKids[Len(RegionKids)] /= Truncated(Anchor[1])
    /\ At(soup, Truncated(Anchor[1]).nid) = Truncated(Anchor[1])

----------------------------------------------------------------------------
(* Two extractions over one document                                       *)

\* C26: two calls of _get_fragment_element on one parsed document, their
\* steps in any order, leave the document as parsed, and each returns the
\* Region that one call alone returns on a fresh parse; two calls for the
\* same anchor return equal Regions.
C26_ExtractionsDoNotInterfere ==
    pc = "pair" =>
        /\ soup = page
        /\ \A i \in Callers :
              extractions[i].stage = "returned" =>
                 extractions[i].result
                    = GetFragmentElement(page, extractions[i].fragment_id)
        /\ \A i, j \in Callers :
              (/\ extractions[i].stage = "returned"
               /\ extractions[j].stage = "returned"
               /\ extractions[i].fragment_id = extractions[j].fragment_id)
              => extractions[i].result = extractions[j].result

\* Two walks from different heading anchors, both in the middle of their
\* loops, each with a copied sibling already in its container.
C26_Witness ==
    /\ pc = "pair"
    /\ extractions[1].fragment_id /= extractions[2].fragment_id
    /\ \A i \in Callers :
          /\ extractions[i].stage = "walking"
          /\ Len(extractions[i].children) >= 2

----------------------------------------------------------------------------
(* The metadata record next to the front matter                            *)

\* C27: in what scrape() returns, the record has the five keys
\* source_url, page_title, scraped_at, navigation_links and footer_links,
\* and the front matter at the head of the text is the one written from
\* the record's page_title, source_url and scraped_at: the same title,
\* augmented or not, the same URL, the same timestamp.
C27_RecordAgreesWithFrontMatter ==
    Returned =>
        /\ DOMAIN context_data = {"source_url", "page_title", "scraped_at",
                                  "navigation_links", "footer_links"}
        /\ context_data.page_title = final_title
        /\ context_data.source_url = UrlText(source)
        /\ context_data.scraped_at = scraped_at
        /\ front_matter = FrontMatter(context_data.page_title,
                                      context_data.source_url, description,
                                      context_data.scraped_at)
        /\ Len(markdown) >= Len(front_matter)
        /\ SubSeq(markdown, 1, Len(front_matter)) = front_matter

\* A result for a URL with a fragment, whose title carries the section
\* suffix in the record.
C27_Witness ==
    /\ Returned
    /\ source.frag /= ""
    /\ context_data.page_title /= title
    /\ context_data.scraped_at \in Timestamps
    /\ content_md /= <<>>

----------------------------------------------------------------------------
(* The lists of links and the Region                                       *)

\* The two lists read from tree t: the first navigation container in the
\* order of the selectors, the first <footer>.
ListsOf(t) ==
    LET nav == FirstMatch(t, NavSelectors)
        footer == Find(t, <<>>, {"footer"})
    IN  [navigation_links |->
            ExtractLinksRecursive(IF nav = <<>> THEN <<>> ELSE <<At(t, nav[1])>>,
                                  source),
         footer_links |->
            ExtractFlatLinks(IF footer = <<>> THEN <<>> ELSE <<At(t, footer[1])>>,
                             source)]

\* The two lists read from the document as parsed.
LinksAsParsed == ListsOf(page)

\* C28: navigation_links and footer_links are the lists read from the
\* document as parsed with the page URL, whatever the Region is (an anchor
\* resolved, the selector chain, none) and whatever the noise filter and
\* the rewriting of the hrefs did afterwards, to the Region or to the
\* parsed tree.
C28_LinksFromDocumentAsParsed ==
    Linked =>
        /\ context_data.navigation_links = LinksAsParsed.navigation_links
        /\ context_data.footer_links = LinksAsParsed.footer_links

\* The two lists read from the tree as scrape() left it.
LinksAtReturn == ListsOf(soup)

\* A result whose Region holds the navigation and the footer, from which
\* the noise filter has taken links: the record still lists them.
C28_Witness ==
    /\ Returned
    /\ main_element.kind = "ref"
    /\ context_data.navigation_links /= <<>>
    /\ context_data.footer_links /= <<>>
    /\ LinksAtReturn.navigation_links /= context_data.navigation_links
    /\ LinksAtReturn.footer_links /= context_data.footer_links

----------------------------------------------------------------------------
(* The title when the fragment names nothing                               *)

\* C29: when the fragment matches no element and the Region comes from the
\* selector chain, the title in the front matter and in page_title is the
\* page title, with no section suffix.
C29_SuffixOnlyWhenResolved ==
    (FragmentMissing /\ Returned /\ main_element.kind /= "none") =>
        /\ final_title = title
        /\ context_data.page_title = title
        /\ front_matter = FrontMatter(title, UrlText(source), description, scraped_at)

============================================================================
